---------------------------- MODULE Spec2Model ----------------------------
(***************************************************************************)
(* A model of the chain store of parity-zcash (zebra-db): the column       *)
(* key-value database, the in-memory best-block pointer, the fork overlay  *)
(* and the operations insert / canonize / decanonize / rollback_best /     *)
(* block_origin / fork / switch_to_fork, together with the synchronous     *)
(* blocks writer that drives them.                                         *)
(*                                                                         *)
(* Hashes are small integers (0 is the zero hash).  A block or transaction *)
(* is determined by its hash, so the catalogue below is a fixed function   *)
(* from hashes to contents; the store is given blocks of the catalogue in  *)
(* any order.                                                              *)
(***************************************************************************)
EXTENDS Integers, Sequences, FiniteSets, TLC

VARIABLES db, best_block, fork_chain, orphaned_blocks_pool, last,
          sink_data, caller, verifier, client, server

vars == <<db, best_block, fork_chain, orphaned_blocks_pool, last,
          sink_data, caller, verifier, client, server>>

\* The state of the local node (the sink of accept_transaction with its two
\* threads, the client's blocks in verification, the tasks the server ran):
\* the store, its writer and the verifier leave it alone.
nodeVars == <<sink_data, caller, verifier, client, server>>

\* LocalNode::new: no call of accept_transaction under way, nothing in
\* verification, no server task run.
\* The peers of the node.
Peers == {1, 2}

NodeIdle ==
    /\ sink_data = [result |-> <<>>, waiter |-> FALSE, lock |-> ""]
    /\ caller = [pc |-> "idle", transaction |-> 0, refused |-> FALSE, waited |-> FALSE,
                 returned |-> <<>>]
    /\ verifier = [pc |-> "idle", posted |-> <<>>]
    /\ client = [verifying_blocks_by_peer |-> [p \in Peers |-> {}],
                 verifying_blocks_futures |-> [p \in Peers |-> <<>>]]
    /\ server = <<>>

(***************************************************************************)
(* Bounds of the model.                                                    *)
(***************************************************************************)
\* Blocks 1..NumBlocks of the catalogue are offered to the store.
NumBlocks == 5

(***************************************************************************)
(* Program constants.                                                      *)
(***************************************************************************)
MAX_FORK_ROUTE_PRESET == 2048
MAX_ORPHANED_BLOCKS == 1024

KEY_BEST_BLOCK_NUMBER == "best_block_number"
KEY_BEST_BLOCK_HASH == "best_block_hash"

ZERO == 0

(***************************************************************************)
(* The catalogue of transactions.  outputs is the number of transparent    *)
(* outputs, inputs the previous outpoints, sprout the nullifiers of all    *)
(* JoinSplit descriptions in order, sapling the nullifiers of the Sapling  *)
(* spends, commitments the JoinSplit commitments and sapling_outputs the   *)
(* note commitments of the Sapling outputs.                                *)
(***************************************************************************)
Tx(outs, ins, spr, sap, cms, sos) ==
    [outputs |-> outs, inputs |-> ins, sprout |-> spr, sapling |-> sap,
     commitments |-> cms, sapling_outputs |-> sos]

OutPoint(h, i) == [hash |-> h, index |-> i]

CoinbaseTx == Tx(1, <<>>, <<>>, <<>>, <<>>, <<>>)

TxHashes == {11, 12, 13, 14, 16, 17, 18, 21, 22, 23, 24, 25}

TxCat(h) ==
    CASE h = 21 -> Tx(1, <<OutPoint(11, 0)>>, <<1>>, <<>>, <<1>>, <<>>)
      [] h = 22 -> Tx(1, <<OutPoint(11, 0)>>, <<2>>, <<1>>, <<>>, <<1>>)
      [] h = 23 -> Tx(1, <<OutPoint(12, 0)>>, <<3, 3>>, <<1>>, <<>>, <<2>>)
      [] h = 24 -> Tx(1, <<OutPoint(11, 0)>>, <<3>>, <<>>, <<2>>, <<>>)
      [] h = 25 -> Tx(1, <<OutPoint(14, 0)>>, <<2>>, <<>>, <<>>, <<>>)
      [] OTHER  -> CoinbaseTx

(***************************************************************************)
(* The catalogue of blocks:                                                *)
(*                                                                         *)
(*     1 (G) --> 2 (A) --> 5 (D)      D repeats the coinbase 11 of G       *)
(*          \         \--> 7 (E)      E spends 11/0 a second time          *)
(*           \-> 3 (B) --> 4 (C) --> 8 (F)                                 *)
(*     6 (G2)                         a second block without parent       *)
(*                                                                         *)
(* A reveals the Sprout nullifier 1 and spends 11/0; C spends 11/0 and     *)
(* reveals the Sprout nullifier 2 and the Sapling nullifier 1; D spends    *)
(* 12/0 and reveals the Sprout nullifier 3 twice and the Sapling nullifier *)
(* 1; F reveals the Sprout nullifier 2 again.                              *)
(***************************************************************************)
G == 1
A == 2
B == 3
C == 4

\* The blocks SideBase + 1, SideBase + 2, ... form one long chain above G:
\* each has the one before it as its parent and lists a coinbase only.
SideBase == 2000

\* The blocks OrphanBase + 1, OrphanBase + 2, ... are children of the block
\* OrphanBase, which is never offered: each lists a coinbase only.
OrphanBase == 5000

RECURSIVE RootOf(_)
\* The root of a commitment tree: an injective digest of the appended
\* commitments (commitments are 1..3).
RootOf(tree) ==
    IF tree = <<>> THEN 0
    ELSE RootOf(SubSeq(tree, 1, Len(tree) - 1)) * 4 + tree[Len(tree)]

BlockBody(h) ==
    CASE h > OrphanBase -> [prev |-> OrphanBase, txs |-> <<h>>]
      [] h > SideBase -> [prev |-> IF h = SideBase + 1 THEN G ELSE h - 1, txs |-> <<h>>]
      [] h = 1 -> [prev |-> ZERO, txs |-> <<11>>]
      [] h = 2 -> [prev |-> 1, txs |-> <<12, 21>>]
      [] h = 3 -> [prev |-> 1, txs |-> <<13>>]
      [] h = 4 -> [prev |-> 3, txs |-> <<14, 22>>]
      [] h = 5 -> [prev |-> 2, txs |-> <<11, 23>>]
      [] h = 6 -> [prev |-> ZERO, txs |-> <<16>>]
      [] h = 7 -> [prev |-> 2, txs |-> <<17, 24>>]
      [] OTHER -> [prev |-> 4, txs |-> <<18, 25>>]

RECURSIVE AppendAll(_, _, _)
\* The commitments of the transactions txs[i..] appended to tree; sapling
\* selects the Sapling output commitments, otherwise the JoinSplit ones.
AppendAll(tree, txs, sapling) ==
    IF txs = <<>> THEN tree
    ELSE AppendAll(tree \o (IF sapling THEN TxCat(Head(txs)).sapling_outputs
                                       ELSE TxCat(Head(txs)).commitments),
                   Tail(txs), sapling)

RECURSIVE ChainTree(_, _)
\* The tree a block's chain of ancestors builds, from the catalogue (G and
\* the long chain above it carry no commitments).
ChainTree(h, sapling) ==
    IF h = ZERO \/ h > SideBase THEN <<>>
    ELSE AppendAll(ChainTree(BlockBody(h).prev, sapling), BlockBody(h).txs, sapling)

\* The raw header of a catalogue block.  Block 5 claims a final Sapling
\* root that is not the root of its tree.
Header(h) ==
    [previous_header_hash |-> BlockBody(h).prev,
     final_sapling_root |-> IF h = 5 THEN 63 ELSE RootOf(ChainTree(h, TRUE))]

\* IndexedBlock: header plus the transactions in order.
Block(h) == [hash |-> h, header |-> Header(h), transactions |-> BlockBody(h).txs]

BlockIds == 1..NumBlocks

(***************************************************************************)
(* The key-value database.  A database is a record of columns; a column is *)
(* a function from the keys present to their values.                       *)
(***************************************************************************)
Columns == {"headers", "hashes", "numbers", "btxs", "txs", "txmeta", "meta",
            "nulls", "trees", "sroots"}

EmptyDb == [c \in Columns |-> <<>>]

\* An operation of a database transaction (kv::Operation).
OpInsert(c, k, v) == [col |-> c, key |-> k, del |-> FALSE, val |-> v]
OpDelete(c, k) == [col |-> c, key |-> k, del |-> TRUE, val |-> 0]

Put(f, k, v) == (k :> v) @@ f
Del(f, k) == [x \in (DOMAIN f) \ {k} |-> f[x]]

RECURSIVE ApplyBase(_, _)
\* MemoryDatabase / DiskDatabase write: the operations in order.
ApplyBase(d, ops) ==
    IF ops = <<>> THEN d
    ELSE LET o == Head(ops)
             d1 == [d EXCEPT ![o.col] =
                        IF o.del THEN Del(d[o.col], o.key)
                        ELSE Put(d[o.col], o.key, o.val)]
         IN ApplyBase(d1, Tail(ops))

RECURSIVE ApplyOverlay(_, _)
\* OverlayDatabase write: the operations are recorded as key states
\* (Insert / Delete) shadowing the base.
ApplyOverlay(ov, ops) ==
    IF ops = <<>> THEN ov
    ELSE LET o == Head(ops)
             ov1 == [ov EXCEPT ![o.col] =
                        Put(ov[o.col], o.key, [del |-> o.del, val |-> o.val])]
         IN ApplyOverlay(ov1, Tail(ops))

\* A KeyValueDatabase: the base database, and for an OverlayDatabase the
\* pending key states over it.
BaseKv(d) == [base |-> d, overlay |-> EmptyDb, layered |-> FALSE]
OverlayKv(d, ov) == [base |-> d, overlay |-> ov, layered |-> TRUE]

Shadowed(kv, c, k) == kv.layered /\ k \in DOMAIN kv.overlay[c]

\* KeyValueDatabase::get(key).is_some()
Has(kv, c, k) ==
    IF Shadowed(kv, c, k) THEN ~kv.overlay[c][k].del
    ELSE k \in DOMAIN kv.base[c]

\* KeyValueDatabase::get(key), for a key that is present
Val(kv, c, k) ==
    IF Shadowed(kv, c, k) THEN kv.overlay[c][k].val ELSE kv.base[c][k]

\* KeyValueDatabase::write.  A write to the base either applies the whole
\* transaction or, when the engine reports an error (fail), nothing; a write
\* to an overlay is kept in memory and cannot fail.
kv_write(kv, ops, fail) ==
    IF kv.layered
    THEN [ok |-> TRUE, kv |-> [kv EXCEPT !.overlay = ApplyOverlay(kv.overlay, ops)]]
    ELSE IF fail THEN [ok |-> FALSE, kv |-> kv]
    ELSE [ok |-> TRUE, kv |-> [kv EXCEPT !.base = ApplyBase(kv.base, ops)]]


(***************************************************************************)
(* The store: a key-value database and the in-memory best-block pointer.   *)
(***************************************************************************)
BestBlock(h, n) == [hash |-> h, number |-> n]

\* BestBlock::default()
DefaultBest == BestBlock(ZERO, 0)

Store(kv, best) == [kv |-> kv, best |-> best]

\* TransactionMeta::new / new_coinbase / denote_used / denote_unused.
\* spent[i + 1] is the spend bit of output i.
NewMeta(height, outputs, coinbase) ==
    [height |-> height, coinbase |-> coinbase, spent |-> [i \in 1..outputs |-> FALSE]]

DenoteUsed(meta, index) == [meta EXCEPT !.spent[index + 1] = TRUE]
DenoteUnused(meta, index) == [meta EXCEPT !.spent[index + 1] = FALSE]

\* BlockChainDatabase::read_best_block, with unwrap_or_default
read_best_block(kv) ==
    IF Has(kv, "meta", KEY_BEST_BLOCK_NUMBER) /\ Has(kv, "meta", KEY_BEST_BLOCK_HASH)
    THEN BestBlock(Val(kv, "meta", KEY_BEST_BLOCK_HASH), Val(kv, "meta", KEY_BEST_BLOCK_NUMBER))
    ELSE DefaultBest

\* BlockChainDatabase::open
open(kv) == Store(kv, read_best_block(kv))

\* BlockProvider::contains_block(BlockRef::Hash)
contains_block(s, h) == Has(s.kv, "headers", h)

\* BlockProvider::block_number / block_hash, as presence and value
has_block_number(s, h) == Has(s.kv, "numbers", h)
block_number(s, h) == Val(s.kv, "numbers", h)
has_block_hash(s, n) == Has(s.kv, "hashes", n)
block_hash(s, n) == Val(s.kv, "hashes", n)

\* BlockHeaderProvider::block_header, for a stored block
block_header(s, h) == Val(s.kv, "headers", h)

\* BlockProvider::block_transaction_hashes
block_transaction_hashes(s, h) ==
    IF Has(s.kv, "btxs", h) THEN Val(s.kv, "btxs", h) ELSE <<>>

\* BlockProvider::block_transactions: the listed transactions whose row is
\* present (filter_map drops the others).
block_transactions(s, h) ==
    SelectSeq(block_transaction_hashes(s, h), LAMBDA t : Has(s.kv, "txs", t))

\* TransactionMetaProvider::transaction_meta
has_transaction_meta(s, t) == Has(s.kv, "txmeta", t)
transaction_meta(s, t) == Val(s.kv, "txmeta", t)

\* TransactionOutputProvider::is_spent
is_spent(s, prevout) ==
    /\ has_transaction_meta(s, prevout.hash)
    /\ prevout.index + 1 \in DOMAIN transaction_meta(s, prevout.hash).spent
    /\ transaction_meta(s, prevout.hash).spent[prevout.index + 1]

\* NullifierTracker::contains_nullifier(EpochRef)
contains_nullifier(s, epoch, n) == Has(s.kv, "nulls", <<epoch, n>>)

\* TreeStateProvider::sprout_tree_at_block / sapling_tree_at_block of a
\* stored block: the tree stored under the block's recorded root.
sprout_tree_at_block(s, h) == Val(s.kv, "trees", <<"Sprout", Val(s.kv, "sroots", h)>>)
sapling_tree_at_block(s, h) ==
    Val(s.kv, "trees", <<"Sapling", block_header(s, h).final_sapling_root>>)

\* Results of the store operations.
OK == "Ok"
CannotCanonize == "CannotCanonize"
CannotDecanonize == "CannotDecanonize"
UnknownParent == "UnknownParent"
AncientFork == "AncientFork"
DatabaseError == "DatabaseError"
Panic == "Panic"

Result(r, s) == [res |-> r, store |-> s]

RECURSIVE SetToSeq(_)
\* The elements of a set of hashes as a sequence (ascending).
SetToSeq(S) ==
    IF S = {} THEN <<>>
    ELSE LET m == CHOOSE x \in S : \A y \in S : x <= y
         IN <<m>> \o SetToSeq(S \ {m})

\* The operations writing every entry of modified_meta.
MetaInserts(mm) ==
    LET ks == SetToSeq(DOMAIN mm)
    IN [i \in 1..Len(ks) |-> OpInsert("txmeta", ks[i], mm[ks[i]])]

(***************************************************************************)
(* canonize                                                                *)
(***************************************************************************)
RECURSIVE CanonizeNullifiers(_, _, _, _)
\* The loop over the nullifiers of one epoch of a transaction: an error if
\* one is in the store, otherwise one insertion each added to the update.
CanonizeNullifiers(s, epoch, nfs, ops) ==
    IF nfs = <<>> THEN [err |-> FALSE, ops |-> ops]
    ELSE IF contains_nullifier(s, epoch, Head(nfs)) THEN [err |-> TRUE, ops |-> ops]
    ELSE CanonizeNullifiers(s, epoch, Tail(nfs),
                            Append(ops, OpInsert("nulls", <<epoch, Head(nfs)>>, TRUE)))

RECURSIVE CanonizeInputs(_, _, _)
\* The loop over the inputs of a transaction: the spend bit of each previous
\* output is set in modified_meta, the entry read from the store when absent.
CanonizeInputs(s, mm, inputs) ==
    IF inputs = <<>> THEN [err |-> FALSE, mm |-> mm]
    ELSE LET po == Head(inputs) IN
         IF po.hash \in DOMAIN mm
         THEN CanonizeInputs(s, [mm EXCEPT ![po.hash] = DenoteUsed(@, po.index)],
                             Tail(inputs))
         ELSE IF has_transaction_meta(s, po.hash)
         THEN CanonizeInputs(s, Put(mm, po.hash,
                                    DenoteUsed(transaction_meta(s, po.hash), po.index)),
                             Tail(inputs))
         ELSE [err |-> TRUE, mm |-> mm]

RECURSIVE CanonizeTxs(_, _, _, _, _)
\* The loop over block.transactions.iter().skip(1).
CanonizeTxs(s, number, txs, mm, ops) ==
    IF txs = <<>> THEN [err |-> FALSE, mm |-> mm, ops |-> ops]
    ELSE LET t == Head(txs)
             mm1 == Put(mm, t, NewMeta(number, TxCat(t).outputs, FALSE))
             sp == CanonizeNullifiers(s, "Sprout", TxCat(t).sprout, ops)
             sa == CanonizeNullifiers(s, "Sapling", TxCat(t).sapling, sp.ops)
             ins == CanonizeInputs(s, mm1, TxCat(t).inputs)
         IN IF sp.err \/ sa.err \/ ins.err THEN [err |-> TRUE, mm |-> mm, ops |-> ops]
            ELSE CanonizeTxs(s, number, Tail(txs), ins.mm, sa.ops)

\* canonize writing the height and hash entries of the new best block before
\* it looks at the transactions
CanonizeUpdate_writing_early(s, hash, fail) ==
    LET prev == block_header(s, hash).previous_header_hash
        txs == block_transactions(s, hash)
        new_best == BestBlock(hash, IF prev = ZERO THEN 0 ELSE s.best.number + 1)
        head == << OpInsert("hashes", new_best.number, new_best.hash),
                   OpInsert("numbers", new_best.hash, new_best.number) >>
        tail == << OpInsert("meta", KEY_BEST_BLOCK_HASH, new_best.hash),
                   OpInsert("meta", KEY_BEST_BLOCK_NUMBER, new_best.number) >>
        early == kv_write(s.kv, head, FALSE).kv
        mm0 == IF txs = <<>> THEN <<>>
               ELSE Put(<<>>, Head(txs),
                        NewMeta(new_best.number, TxCat(Head(txs)).outputs, TRUE))
        Written(w) ==
            IF ~w.ok THEN Result(DatabaseError, Store(early, s.best))
            ELSE Result(OK, Store(w.kv, new_best))
        Update(loop) ==
            IF loop.err THEN Result(CannotCanonize, Store(early, s.best))
            ELSE Written(kv_write(early, loop.ops \o MetaInserts(loop.mm), fail))
    IN IF prev = ZERO /\ s.best.number # 0 THEN Result(Panic, s)
       ELSE Update(CanonizeTxs(s, new_best.number,
                               IF txs = <<>> THEN <<>> ELSE Tail(txs), mm0, tail))

\* canonize past its two guards: the new best block, the update and its
\* write.  fail: the engine reports an error for the write of the update.
CanonizeUpdate(s, hash, fail) ==
    LET prev == block_header(s, hash).previous_header_hash
        txs == block_transactions(s, hash)
        new_best == BestBlock(hash, IF prev = ZERO THEN 0 ELSE s.best.number + 1)
        head == << OpInsert("hashes", new_best.number, new_best.hash),
                   OpInsert("numbers", new_best.hash, new_best.number),
                   OpInsert("meta", KEY_BEST_BLOCK_HASH, new_best.hash),
                   OpInsert("meta", KEY_BEST_BLOCK_NUMBER, new_best.number) >>
        mm0 == IF txs = <<>> THEN <<>>
               ELSE Put(<<>>, Head(txs),
                        NewMeta(new_best.number, TxCat(Head(txs)).outputs, TRUE))
        Written(w) ==
            IF ~w.ok THEN Result(DatabaseError, s)
            ELSE Result(OK, Store(w.kv, new_best))
        Update(loop) ==
            IF loop.err THEN Result(CannotCanonize, s)
            ELSE Written(kv_write(s.kv, loop.ops \o MetaInserts(loop.mm), fail))
    IN IF prev = ZERO /\ s.best.number # 0 THEN Result(Panic, s)
       ELSE Update(CanonizeTxs(s, new_best.number,
                               IF txs = <<>> THEN <<>> ELSE Tail(txs), mm0, head))

\* canonize that does not compare the parent with the best block
canonize_any_parent(s, hash, fail) ==
    IF ~contains_block(s, hash) THEN Result(CannotCanonize, s)
    ELSE CanonizeUpdate(s, hash, fail)

\* BlockChainDatabase::canonize
canonize(s, hash, fail) ==
    IF ~contains_block(s, hash) THEN Result(CannotCanonize, s)
    ELSE IF s.best.hash # block_header(s, hash).previous_header_hash
    THEN Result(CannotCanonize, s)
    ELSE CanonizeUpdate(s, hash, fail)

(***************************************************************************)
(* decanonize                                                              *)
(***************************************************************************)
RECURSIVE DecanonizeNullifiers(_, _, _, _)
DecanonizeNullifiers(s, epoch, nfs, ops) ==
    IF nfs = <<>> THEN [err |-> FALSE, ops |-> ops]
    ELSE IF ~contains_nullifier(s, epoch, Head(nfs)) THEN [err |-> TRUE, ops |-> ops]
    ELSE DecanonizeNullifiers(s, epoch, Tail(nfs),
                              Append(ops, OpDelete("nulls", <<epoch, Head(nfs)>>)))

RECURSIVE DecanonizeInputs(_, _, _)
DecanonizeInputs(s, mm, inputs) ==
    IF inputs = <<>> THEN [err |-> FALSE, mm |-> mm]
    ELSE LET po == Head(inputs) IN
         IF po.hash \in DOMAIN mm
         THEN DecanonizeInputs(s, [mm EXCEPT ![po.hash] = DenoteUnused(@, po.index)],
                               Tail(inputs))
         ELSE IF has_transaction_meta(s, po.hash)
         THEN DecanonizeInputs(s, Put(mm, po.hash,
                                      DenoteUnused(transaction_meta(s, po.hash), po.index)),
                               Tail(inputs))
         ELSE [err |-> TRUE, mm |-> mm]

RECURSIVE DecanonizeTxs(_, _, _, _)
\* The loop over block.transactions.iter().skip(1).
DecanonizeTxs(s, txs, mm, ops) ==
    IF txs = <<>> THEN [err |-> FALSE, mm |-> mm, ops |-> ops]
    ELSE LET t == Head(txs)
             sp == DecanonizeNullifiers(s, "Sprout", TxCat(t).sprout, ops)
             sa == DecanonizeNullifiers(s, "Sapling", TxCat(t).sapling, sp.ops)
             ins == DecanonizeInputs(s, mm, TxCat(t).inputs)
         IN IF sp.err \/ sa.err \/ ins.err THEN [err |-> TRUE, mm |-> mm, ops |-> ops]
            ELSE DecanonizeTxs(s, Tail(txs), ins.mm, sa.ops)

\* The deletion of the transaction meta of every transaction of the block.
MetaDeletes(txs) == [i \in 1..Len(txs) |-> OpDelete("txmeta", txs[i])]

\* BlockChainDatabase::decanonize.  The result carries the decanonized hash.
decanonize(s, fail) ==
    LET prev == block_header(s, s.best.hash).previous_header_hash
        txs == block_transactions(s, s.best.hash)
        new_best == BestBlock(prev, IF s.best.number > 0 THEN s.best.number - 1 ELSE 0)
        head == << OpDelete("hashes", s.best.number),
                   OpDelete("numbers", s.best.hash),
                   OpInsert("meta", KEY_BEST_BLOCK_HASH, new_best.hash),
                   OpInsert("meta", KEY_BEST_BLOCK_NUMBER, new_best.number) >>
        Written(w) ==
            IF ~w.ok THEN [res |-> DatabaseError, hash |-> ZERO, store |-> s]
            ELSE [res |-> OK, hash |-> s.best.hash, store |-> Store(w.kv, new_best)]
        Update(loop) ==
            IF loop.err THEN [res |-> CannotDecanonize, hash |-> ZERO, store |-> s]
            ELSE Written(kv_write(s.kv, loop.ops \o MetaInserts(loop.mm) \o MetaDeletes(txs),
                                  fail))
    IN IF ~contains_block(s, s.best.hash)
       THEN [res |-> CannotDecanonize, hash |-> ZERO, store |-> s]
       ELSE IF s.best.number = 0 /\ prev # ZERO
       THEN [res |-> Panic, hash |-> ZERO, store |-> s]
       ELSE Update(DecanonizeTxs(s, IF txs = <<>> THEN <<>> ELSE Tail(txs), <<>>, head))

(***************************************************************************)
(* insert and rollback_best                                                *)
(***************************************************************************)
\* The rows of the transactions of a block.
TxInserts(txs) == [i \in 1..Len(txs) |-> OpInsert("txs", txs[i], TRUE)]
TxDeletes(txs) == [i \in 1..Len(txs) |-> OpDelete("txs", txs[i])]

\* The parent's tree snapshots are present (otherwise insert panics with
\* "Corrupted database").
HasParentTrees(s, parent) ==
    /\ Has(s.kv, "sroots", parent)
    /\ Has(s.kv, "trees", <<"Sprout", Val(s.kv, "sroots", parent)>>)
    /\ Has(s.kv, "trees", <<"Sapling", block_header(s, parent).final_sapling_root>>)

\* The batch insert writes: the header, the transactions and the tree states
\* of the block, computed from what the store holds when insert reads it.
InsertBatch(s, block) ==
    LET parent_hash == block.header.previous_header_hash
        sapling_tree_root == block.header.final_sapling_root
        Update(sprout_tree_state, sapling_tree_state) ==
            << OpInsert("headers", block.hash, block.header),
               OpInsert("btxs", block.hash, block.transactions) >>
            \o TxInserts(block.transactions)
            \o << OpInsert("sroots", block.hash, RootOf(sprout_tree_state)),
                  OpInsert("trees", <<"Sprout", RootOf(sprout_tree_state)>>, sprout_tree_state),
                  OpInsert("trees", <<"Sapling", sapling_tree_root>>, sapling_tree_state) >>
    IN Update(AppendAll(IF parent_hash = ZERO THEN <<>>
                        ELSE sprout_tree_at_block(s, parent_hash),
                        block.transactions, FALSE),
              AppendAll(IF parent_hash = ZERO THEN <<>>
                        ELSE sapling_tree_at_block(s, parent_hash),
                        block.transactions, TRUE))

\* insert past its first guard: the parent, the tree states, the update and
\* its write.  fail: the engine reports an error for the write.
InsertUpdate(s, block, fail) ==
    LET parent_hash == block.header.previous_header_hash
        Written(w) ==
            IF w.ok THEN Result(OK, Store(w.kv, s.best)) ELSE Result(DatabaseError, s)
    IN IF ~contains_block(s, parent_hash) /\ parent_hash # ZERO
       THEN Result(UnknownParent, s)
       ELSE IF parent_hash # ZERO /\ ~HasParentTrees(s, parent_hash) THEN Result(Panic, s)
       ELSE Written(kv_write(s.kv, InsertBatch(s, block), fail))

\* insert that writes the block again when it is stored
insert_again(s, block, fail) == InsertUpdate(s, block, fail)

\* BlockChainDatabase::insert
insert(s, block, fail) ==
    IF contains_block(s, block.hash) THEN Result(OK, s)
    ELSE InsertUpdate(s, block, fail)

\* BlockChainDatabase::rollback_best.  fail1: the write of decanonize fails;
\* fail2: the write removing the block's rows fails.
rollback_best(s, fail1, fail2) ==
    LET best_block_hash == s.best.hash
        tx_to_decanonize == block_transaction_hashes(s, best_block_hash)
        Written(d, w) ==
            IF ~w.ok THEN [res |-> DatabaseError, hash |-> ZERO, store |-> d.store]
            ELSE [res |-> OK, hash |-> d.store.best.hash,
                  store |-> Store(w.kv, d.store.best)]
        Decanonized(d) ==
            IF d.res # OK THEN [res |-> d.res, hash |-> ZERO, store |-> s]
            ELSE Written(d, kv_write(d.store.kv,
                                     << OpDelete("headers", d.hash),
                                        OpDelete("btxs", d.hash) >>
                                     \o TxDeletes(tx_to_decanonize),
                                     fail2))
    IN Decanonized(decanonize(s, fail1))

(***************************************************************************)
(* block_origin                                                            *)
(***************************************************************************)
Origin(kind, number, ancestor, canonized, decanonized) ==
    [kind |-> kind, block_number |-> number, ancestor |-> ancestor,
     canonized_route |-> canonized, decanonized_route |-> decanonized]

NoOrigin(kind) == Origin(kind, 0, 0, <<>>, <<>>)

Reverse(q) == [i \in 1..Len(q) |-> q[Len(q) + 1 - i]]

RECURSIVE HashesBetween(_, _, _)
\* (from..to).filter_map(|n| self.block_hash(n))
HashesBetween(s, from, to) ==
    IF from > to THEN <<>>
    ELSE (IF has_block_hash(s, from) THEN <<block_hash(s, from)>> ELSE <<>>)
         \o HashesBetween(s, from + 1, to)

\* The assertion best.hash == block_hash(best.number)
BestIsCanon(s) ==
    has_block_hash(s, s.best.number) /\ block_hash(s, s.best.number) = s.best.hash

\* the comparison that asks for a lead of two blocks
SideChainKindLate(new_number, best_number) ==
    IF new_number > best_number + 1 THEN "SideChainBecomingCanonChain"
    ELSE "SideChain"

\* if block_number > best_block.number { becoming canon } else { side chain }
SideChainKind(new_number, best_number) ==
    IF new_number > best_number THEN "SideChainBecomingCanonChain"
    ELSE "SideChain"

\* One turn of the loop of block_origin that did not return: the hash is
\* pushed on the route and the walk moves to its parent.  A walk w is the
\* hash looked at, the turns taken, the route, and how the loop ended if
\* it did ("" while it runs).
RouteStep(s, w) ==
    IF has_block_number(s, w.next_hash) THEN [w EXCEPT !.ended = "Some"]
    ELSE IF ~contains_block(s, w.next_hash) THEN [w EXCEPT !.ended = Panic]
    ELSE [next_hash |-> block_header(s, w.next_hash).previous_header_hash,
          fork_len |-> w.fork_len + 1,
          sidechain_route |-> Append(w.sidechain_route, w.next_hash),
          ended |-> ""]

RECURSIVE RouteSteps(_, _, _)
\* n turns of the loop from the walk w, the first n \div 2 and then the rest.
RouteSteps(s, w, n) ==
    IF w.ended # "" \/ n = 0 THEN w
    ELSE IF n = 1 THEN RouteStep(s, w)
    ELSE RouteSteps(s, RouteSteps(s, w, n \div 2), n - (n \div 2))

\* the range of a loop that takes one turn more
RouteTurnsLate(fork_len) == MAX_FORK_ROUTE_PRESET + 1 - fork_len

\* The turns left of for fork_len in 0..MAX_FORK_ROUTE_PRESET
RouteTurns(fork_len) == MAX_FORK_ROUTE_PRESET - fork_len

\* The loop of block_origin over fork_len in 0..MAX_FORK_ROUTE_PRESET, from
\* the turn fork_len on.
SideChainRoute(s, next_hash, fork_len, sidechain_route) ==
    LET Walked(w) ==
            IF w.ended = "Some"
            THEN LET number == block_number(s, w.next_hash)
                     new_number == number + w.fork_len + 1
                 IN Origin(SideChainKind(new_number, s.best.number),
                           new_number, number, Reverse(w.sidechain_route),
                           HashesBetween(s, number + 1, s.best.number))
            ELSE IF w.ended = Panic THEN NoOrigin(Panic)
            ELSE NoOrigin(AncientFork)
    IN Walked(RouteSteps(s, [next_hash |-> next_hash, fork_len |-> fork_len,
                             sidechain_route |-> sidechain_route, ended |-> ""],
                         RouteTurns(fork_len)))

\* BlockChainDatabase::block_origin of the header with hash h
block_origin(s, h) ==
    IF ~BestIsCanon(s) THEN NoOrigin(Panic)
    ELSE IF contains_block(s, h) THEN NoOrigin("KnownBlock")
    ELSE IF s.best.hash = Header(h).previous_header_hash
    THEN Origin("CanonChain", s.best.number + 1, 0, <<>>, <<>>)
    ELSE IF ~contains_block(s, Header(h).previous_header_hash)
    THEN NoOrigin(UnknownParent)
    ELSE SideChainRoute(s, Header(h).previous_header_hash, 0, <<>>)

IsSideChain(o) == o.kind \in {"SideChain", "SideChainBecomingCanonChain"}

(***************************************************************************)
(* fork and switch_to_fork                                                 *)
(***************************************************************************)
RECURSIVE ForkDecanonize(_, _)
\* for hash in decanonized_route.rev() { assert_eq!(hash, overlay.decanonize()?) }
ForkDecanonize(ov, route) ==
    LET Decanonized(d) ==
            IF d.res # OK THEN Result(d.res, ov)
            ELSE IF d.hash # Head(route) THEN Result(Panic, ov)
            ELSE ForkDecanonize(d.store, Tail(route))
    IN IF route = <<>> THEN Result(OK, ov)
       ELSE Decanonized(decanonize(ov, FALSE))

RECURSIVE ForkCanonize(_, _)
\* for hash in canonized_route { overlay.canonize(hash)? }
ForkCanonize(ov, route) ==
    LET Canonized(c) ==
            IF c.res # OK THEN Result(c.res, ov)
            ELSE ForkCanonize(c.store, Tail(route))
    IN IF route = <<>> THEN Result(OK, ov)
       ELSE Canonized(canonize(ov, Head(route), FALSE))

\* The two loops of fork on the store it opened.
ForkRoutes(overlay, side_chain) ==
    LET Decanonized(d) ==
            IF d.res # OK THEN d
            ELSE ForkCanonize(d.store, side_chain.canonized_route)
    IN Decanonized(ForkDecanonize(overlay, Reverse(side_chain.decanonized_route)))

\* fork that works on the store itself instead of an overlay of it
fork_in_place(s, side_chain) == ForkRoutes(s, side_chain)

\* BlockChainDatabase::fork: a store over an overlay of this store's
\* database, decanonized down to the ancestor and canonized up the route.
fork(s, side_chain) ==
    ForkRoutes(open(OverlayKv(s.kv.base, EmptyDb)), side_chain)

\* OverlayDatabase::flush: the pending key states written to the base as one
\* transaction.
FlushInto(d, ov) ==
    [c \in Columns |->
        LET deleted == {k \in DOMAIN ov[c] : ov[c][k].del}
            keys == ((DOMAIN d[c]) \cup (DOMAIN ov[c])) \ deleted
        IN [k \in keys |-> IF k \in DOMAIN ov[c] THEN ov[c][k].val ELSE d[c][k]]]

\* BlockChainDatabase::switch_to_fork.  The best pointer is assigned, then
\* the overlay is flushed; fail: the engine reports an error for the flush.
switch_to_fork(s, f, fail) ==
    IF fail THEN Result(DatabaseError, Store(s.kv, f.best))
    ELSE Result(OK, Store(BaseKv(FlushInto(s.kv.base, f.kv.overlay)), f.best))

(***************************************************************************)
(* The acceptor's reads                                                    *)
(***************************************************************************)
\* TransactionDoubleSpend::check over the transactions txs: some input's
\* previous output is marked spent in the store.
DoubleSpends(s, txs) ==
    \E i \in 1..Len(txs) :
        \E j \in 1..Len(TxCat(txs[i]).inputs) : is_spent(s, TxCat(txs[i]).inputs[j])

(***************************************************************************)
(* The state machine of the store.                                         *)
(*                                                                         *)
(* db and best_block are the base BlockChainDatabase; fork_chain is the    *)
(* ForkChainDatabase handed out by fork, if one is alive; last records the *)
(* last call and its result.  A fork borrows the base for the duration of  *)
(* one verification or one reorganization of one block: the base is not    *)
(* written while a fork is alive, and the fork is given the block it was    *)
(* made for.                                                               *)
(***************************************************************************)
NoFork == [live |-> FALSE, block |-> ZERO, overlay |-> EmptyDb, best |-> DefaultBest]

Call(op, arg, res) == [op |-> op, arg |-> arg, res |-> res]

CurrentStore == Store(BaseKv(db), best_block)
ForkStore == Store(OverlayKv(db, fork_chain.overlay), fork_chain.best)

LiveFork(h, s) == [live |-> TRUE, block |-> h, overlay |-> s.kv.overlay, best |-> s.best]

\* BlockChainDatabase::open(MemoryDatabase::default())
Init ==
    /\ db = EmptyDb
    /\ best_block = read_best_block(BaseKv(EmptyDb))
    /\ fork_chain = NoFork
    /\ orphaned_blocks_pool = {}
    /\ last = Call("open", 0, OK)
    /\ NodeIdle

\* A call on the base store returns r.
Returns(op, arg, r) ==
    /\ db' = r.store.kv.base
    /\ best_block' = r.store.best
    /\ last' = Call(op, arg, r.res)

\* A call on the store of the fork returns r.
ForkReturns(op, arg, r) ==
    /\ db' = r.store.kv.base
    /\ fork_chain' = LiveFork(arg, r.store)
    /\ last' = Call(op, arg, r.res)

Insert(b, fail) ==
    /\ ~fork_chain.live
    /\ Returns("insert", b, insert(CurrentStore, Block(b), fail))
    /\ UNCHANGED <<fork_chain, orphaned_blocks_pool>>

Canonize(h, fail) ==
    /\ ~fork_chain.live
    /\ Returns("canonize", h, canonize(CurrentStore, h, fail))
    /\ UNCHANGED <<fork_chain, orphaned_blocks_pool>>

Decanonize(fail) ==
    /\ ~fork_chain.live
    /\ Returns("decanonize", best_block.hash, decanonize(CurrentStore, fail))
    /\ UNCHANGED <<fork_chain, orphaned_blocks_pool>>

RollbackBest(fail1, fail2) ==
    /\ ~fork_chain.live
    /\ Returns("rollback_best", best_block.hash, rollback_best(CurrentStore, fail1, fail2))
    /\ UNCHANGED <<fork_chain, orphaned_blocks_pool>>

\* fork(origin) for the origin block_origin reports for header h.
Fork(h) ==
    /\ ~fork_chain.live
    /\ LET Forked(r) ==
               /\ db' = r.store.kv.base
               /\ fork_chain' = IF r.res = OK THEN LiveFork(h, r.store) ELSE NoFork
               /\ last' = Call("fork", h, r.res)
            WithOrigin(o) == IsSideChain(o) /\ Forked(fork(CurrentStore, o))
       IN WithOrigin(block_origin(CurrentStore, h))
    /\ UNCHANGED <<best_block, orphaned_blocks_pool>>

\* fork.store().insert(block), for the block the fork was made for
ForkInsert ==
    /\ fork_chain.live
    /\ ForkReturns("fork_insert", fork_chain.block,
                   insert(ForkStore, Block(fork_chain.block), FALSE))
    /\ UNCHANGED <<best_block, orphaned_blocks_pool>>

\* fork.store().canonize(block.hash())
ForkCanonizeBlock ==
    /\ fork_chain.live
    /\ ForkReturns("fork_canonize", fork_chain.block,
                   canonize(ForkStore, fork_chain.block, FALSE))
    /\ UNCHANGED <<best_block, orphaned_blocks_pool>>

SwitchToFork(fail) ==
    /\ fork_chain.live
    /\ Returns("switch_to_fork", fork_chain.best.hash,
               switch_to_fork(CurrentStore, ForkStore, fail))
    /\ fork_chain' = NoFork
    /\ UNCHANGED orphaned_blocks_pool

\* The acceptor's double-spend check of the fork's block, reading through
\* the fork's store (TransactionDoubleSpend over every transaction).
ForkAcceptBlock ==
    /\ fork_chain.live
    /\ last' = Call("fork_accept", fork_chain.block,
                    IF DoubleSpends(ForkStore, Block(fork_chain.block).transactions)
                    THEN "UsingSpentOutput" ELSE OK)
    /\ UNCHANGED <<db, best_block, fork_chain, orphaned_blocks_pool>>

\* The ForkChainDatabase is dropped.
DropFork ==
    /\ fork_chain.live
    /\ fork_chain' = NoFork
    /\ last' = Call("drop_fork", fork_chain.best.hash, OK)
    /\ UNCHANGED <<db, best_block, orphaned_blocks_pool>>

Next ==
    \/ \E b \in BlockIds, fail \in BOOLEAN : Insert(b, fail) /\ UNCHANGED nodeVars
    \/ \E h \in BlockIds, fail \in BOOLEAN : Canonize(h, fail) /\ UNCHANGED nodeVars
    \/ \E fail \in BOOLEAN : Decanonize(fail) /\ UNCHANGED nodeVars
    \/ \E fail1, fail2 \in BOOLEAN : RollbackBest(fail1, fail2) /\ UNCHANGED nodeVars
    \/ \E h \in BlockIds : Fork(h) /\ UNCHANGED nodeVars
    \/ ForkInsert /\ UNCHANGED nodeVars
    \/ ForkCanonizeBlock /\ UNCHANGED nodeVars
    \/ ForkAcceptBlock /\ UNCHANGED nodeVars
    \/ \E fail \in BOOLEAN : SwitchToFork(fail) /\ UNCHANGED nodeVars
    \/ DropFork /\ UNCHANGED nodeVars

\* The store over an engine that may report an error for any write to the
\* base (DiskDatabase).
Spec == Init /\ [][Next]_vars

NextNoIoError ==
    \/ \E b \in BlockIds : Insert(b, FALSE) /\ UNCHANGED nodeVars
    \/ \E h \in BlockIds : Canonize(h, FALSE) /\ UNCHANGED nodeVars
    \/ Decanonize(FALSE) /\ UNCHANGED nodeVars
    \/ RollbackBest(FALSE, FALSE) /\ UNCHANGED nodeVars
    \/ \E h \in BlockIds : Fork(h) /\ UNCHANGED nodeVars
    \/ ForkInsert /\ UNCHANGED nodeVars
    \/ ForkCanonizeBlock /\ UNCHANGED nodeVars
    \/ ForkAcceptBlock /\ UNCHANGED nodeVars
    \/ SwitchToFork(FALSE) /\ UNCHANGED nodeVars
    \/ DropFork /\ UNCHANGED nodeVars

\* The store over an engine whose writes always succeed (MemoryDatabase).
SpecNoIoError == Init /\ [][NextNoIoError]_vars

(***************************************************************************)
(* The synchronous blocks writer (BlocksWriter) at the verification level  *)
(* NO_VERIFICATION: every block of the verification queue is reported      *)
(* verified and handed to Chain::insert_best_block.                        *)
(***************************************************************************)
\* The writes of one append_block call that may fail are the first MaxFailAt.
MaxFailAt == 2

Range(q) == {q[i] : i \in DOMAIN q}

\* 1 when the store operation came to its write of the base
Attempted(r) == IF r.res \in {OK, DatabaseError} THEN 1 ELSE 0

\* Chain::insert_best_block.  fail_at = k: the k-th write of the base this
\* call comes to fails.  The result carries the number of writes it came to
\* and the origin block_origin reported.
insert_best_block(s, block, fail_at) ==
    LET Done(r, n, kind) ==
            [res |-> r.res, store |-> r.store, writes |-> n, origin |-> kind]
        Failed(res, kind) ==
            [res |-> res, store |-> s, writes |-> 0, origin |-> kind]
        Canonized(c, kind) == Done(c, 1 + Attempted(c), kind)
        Inserted(i, kind) ==
            IF i.res # OK THEN Done(i, Attempted(i), kind)
            ELSE Canonized(canonize(i.store, block.hash, fail_at = 2), kind)
        ForkCanonized(c, kind) ==
            IF c.res # OK THEN Failed(c.res, kind)
            ELSE Done(switch_to_fork(s, c.store, fail_at = 1), 1, kind)
        ForkInserted(i, kind) ==
            IF i.res # OK THEN Failed(i.res, kind)
            ELSE ForkCanonized(canonize(i.store, block.hash, FALSE), kind)
        Forked(f, kind) ==
            IF f.res # OK THEN Failed(f.res, kind)
            ELSE ForkInserted(insert(f.store, block, FALSE), kind)
        SideInserted(i, kind) == Done(i, Attempted(i), kind)
        WithOrigin(o) ==
            CASE o.kind = "CanonChain" ->
                     Inserted(insert(s, block, fail_at = 1), o.kind)
              [] o.kind = "SideChainBecomingCanonChain" ->
                     Forked(fork(s, o), o.kind)
              [] o.kind = "SideChain" ->
                     SideInserted(insert(s, block, fail_at = 1), o.kind)
              [] o.kind = "KnownBlock" -> Failed(Panic, o.kind)
              [] OTHER -> Failed(o.kind, o.kind)
    IN WithOrigin(block_origin(s, block.hash))

RECURSIVE OrphanDescendants(_, _)
\* The blocks of the pool that descend from parents.
OrphanDescendants(pool, parents) ==
    LET children == {c \in pool : Header(c).previous_header_hash \in parents}
    IN IF children = {} THEN {}
       ELSE children \cup OrphanDescendants(pool \ children, children)

RECURSIVE DepthBelow(_, _)
DepthBelow(h, root) ==
    IF Header(h).previous_header_hash = root THEN 1
    ELSE 1 + DepthBelow(Header(h).previous_header_hash, root)

\* OrphanBlocksPool::remove_blocks_for_parent: the descendants breadth
\* first; the order among the children of one parent is not determined.
remove_blocks_for_parent(pool, hash) ==
    LET removed == OrphanDescendants(pool, {hash})
        Pos(q, x) == IF x = hash THEN 0 ELSE CHOOSE i \in DOMAIN q : q[i] = x
    IN {q \in [1..Cardinality(removed) -> removed] :
           \A i, j \in DOMAIN q :
               i < j =>
                 /\ q[i] # q[j]
                 /\ DepthBelow(q[i], hash) <= DepthBelow(q[j], hash)
                 /\ Pos(q, Header(q[i]).previous_header_hash)
                        <= Pos(q, Header(q[j]).previous_header_hash)}

\* the queue that verifies its first block only
VerificationQueueFirst(s, queue, fail_at, origin) ==
    LET Once(r) == [res |-> r.res, store |-> r.store, origin |-> r.origin,
                    failed |-> IF r.res # OK THEN Head(queue) ELSE ZERO]
    IN IF queue = <<>> THEN [res |-> OK, store |-> s, origin |-> origin, failed |-> ZERO]
       ELSE Once(insert_best_block(s, Block(Head(queue)), fail_at))

RECURSIVE VerificationQueue(_, _, _, _)
\* while let Some(block) = verification_queue.pop_front(): verify_block,
\* then the error of the sink ends the call.  origin is the origin of the
\* first block of the queue, failed the block whose error is returned.
VerificationQueue(s, queue, fail_at, origin) ==
    LET Verified(r) ==
            IF r.res # OK
            THEN [res |-> r.res, store |-> r.store,
                  origin |-> IF origin = "" THEN r.origin ELSE origin,
                  failed |-> Head(queue)]
            ELSE VerificationQueue(r.store, Tail(queue), fail_at - r.writes,
                                   IF origin = "" THEN r.origin ELSE origin)
    IN IF queue = <<>> THEN [res |-> OK, store |-> s, origin |-> origin, failed |-> ZERO]
       ELSE Verified(insert_best_block(s, Block(Head(queue)), fail_at))

Appended(arg, res, origin, failed) ==
    [op |-> "append_block", arg |-> arg, res |-> res, origin |-> origin, failed |-> failed]

\* BlockChainDatabase::init_test_chain(vec![G]) and BlocksWriter::new
InitWriter ==
    LET Canonized(c) ==
            /\ db = c.store.kv.base
            /\ best_block = c.store.best
        Inserted(i) == Canonized(canonize(i.store, G, FALSE))
    IN /\ Inserted(insert(open(BaseKv(EmptyDb)), Block(G), FALSE))
       /\ fork_chain = NoFork
       /\ orphaned_blocks_pool = {}
       /\ last = [op |-> "init_test_chain", arg |-> G, res |-> OK, origin |-> "",
               failed |-> ZERO]
       /\ NodeIdle

\* BlocksWriter::append_block
AppendBlock(b, fail_at) ==
    LET Written(r, queue) ==
            /\ db' = r.store.kv.base
            /\ best_block' = r.store.best
            /\ orphaned_blocks_pool' = orphaned_blocks_pool \ Range(queue)
            /\ last' = Appended(b, r.res, r.origin, r.failed)
    IN
    IF contains_block(CurrentStore, b)
    THEN /\ last' = Appended(b, OK, "", ZERO)
         /\ UNCHANGED <<db, best_block, fork_chain, orphaned_blocks_pool>>
    ELSE IF ~contains_block(CurrentStore, Header(b).previous_header_hash)
    THEN /\ orphaned_blocks_pool' = orphaned_blocks_pool \cup {b}
         /\ last' = Appended(b, IF Cardinality(orphaned_blocks_pool \cup {b})
                                       > MAX_ORPHANED_BLOCKS
                                THEN "TooManyOrphanBlocks" ELSE OK, "", ZERO)
         /\ UNCHANGED <<db, best_block, fork_chain>>
    ELSE /\ \E queue \in remove_blocks_for_parent(orphaned_blocks_pool, b) :
               Written(VerificationQueue(CurrentStore, <<b>> \o queue, fail_at, ""),
                       queue)
         /\ UNCHANGED fork_chain

NextWriter == \E b \in BlockIds, fail_at \in 0..MaxFailAt :
        AppendBlock(b, fail_at) /\ UNCHANGED nodeVars

\* The blocks writer over the chain init_test_chain built from G.
SpecWriter == InitWriter /\ [][NextWriter]_vars

(***************************************************************************)
(* The canonical chain, read off the best block and the parent links of    *)
(* the catalogue, and what its blocks list and reveal.                     *)
(***************************************************************************)
\* Every block hash of the catalogue.
AllBlocks == {1, 2, 3, 4, 5, 6, 7, 8}

Epochs == {"Sprout", "Sapling"}
Nullifiers == {1, 2, 3}

RECURSIVE ChainTo(_)
\* The chain of blocks from the one without parent to h.
ChainTo(h) ==
    IF h = ZERO THEN <<>>
    ELSE Append(ChainTo(Header(h).previous_header_hash), h)

Height(h) == Len(ChainTo(h)) - 1

\* The nullifiers of an epoch a transaction reveals, in order.
Revealed(t, epoch) == IF epoch = "Sprout" THEN TxCat(t).sprout ELSE TxCat(t).sapling

\* The nullifiers of an epoch the block reveals, in block order.
RECURSIVE RevealedIn(_, _)
RevealedIn(txs, epoch) ==
    IF txs = <<>> THEN <<>>
    ELSE Revealed(Head(txs), epoch) \o RevealedIn(Tail(txs), epoch)

PostStore == Store(BaseKv(db'), best_block')

(***************************************************************************)
(* Properties of the store                                                 *)
(***************************************************************************)
\* C1: in a state reached by insert(b) in which canonize(hash(b)) succeeds,
\* canonize(hash(b)) followed by decanonize() returns hash(b) and a store
\* equal to that state in every column and in the best pointer.
C1_RoundTrip ==
    LET Decanonized(d) ==
            /\ d.res = OK
            /\ d.hash = last.arg
            /\ d.store.best = best_block
            /\ d.store.kv.base = db
        Canonized(c) == c.res = OK => Decanonized(decanonize(c.store, FALSE))
    IN (last.op = "insert" /\ last.res = OK)
           => Canonized(canonize(CurrentStore, last.arg, FALSE))

\* C2: a block is on the canonical chain at height h exactly when
\* block_hash(h) is its hash and block_number(hash) is h, and the two maps
\* are inverses of each other.
C2_HeightHashInverse ==
    LET s == CurrentStore
        chain == ChainTo(best_block.hash)
    IN /\ \A b \in AllBlocks, h \in 0..Cardinality(AllBlocks) :
              (h + 1 \in DOMAIN chain /\ chain[h + 1] = b)
                  <=> /\ has_block_hash(s, h) /\ block_hash(s, h) = b
                      /\ has_block_number(s, b) /\ block_number(s, b) = h
       /\ \A h \in DOMAIN db.hashes :
              has_block_number(s, db.hashes[h]) /\ block_number(s, db.hashes[h]) = h
       /\ \A b \in DOMAIN db.numbers :
              has_block_hash(s, db.numbers[b]) /\ block_hash(s, db.numbers[b]) = b

\* The expected answer of block_origin for the header of block h.
ExpectedOrigin(s, h) ==
    LET parent == Header(h).previous_header_hash
        canon == ChainTo(s.best.hash)
        route == ChainTo(parent)
        shared == {i \in DOMAIN route : i \in DOMAIN canon /\ canon[i] = route[i]}
        k == IF shared = {} THEN 0 ELSE CHOOSE i \in shared : \A j \in shared : j <= i
    IN IF contains_block(s, h) THEN NoOrigin("KnownBlock")
       ELSE IF parent = s.best.hash
       THEN Origin("CanonChain", s.best.number + 1, 0, <<>>, <<>>)
       ELSE IF ~contains_block(s, parent) THEN NoOrigin(UnknownParent)
       ELSE Origin(IF Height(h) > s.best.number THEN "SideChainBecomingCanonChain"
                   ELSE "SideChain",
                   Height(h), k - 1,
                   SubSeq(route, k + 1, Len(route)),
                   SubSeq(canon, k + 1, Len(canon)))

\* C4: block_origin answers KnownBlock exactly for a stored block, otherwise
\* CanonChain{best.number + 1} exactly when the parent is the best block,
\* otherwise UnknownParent exactly when the parent is not stored, otherwise
\* the side chain origin (ancestor, routes, height) with
\* SideChainBecomingCanonChain when the height exceeds best.number.
C4_BlockOriginClassifies ==
    \A h \in AllBlocks : block_origin(CurrentStore, h) = ExpectedOrigin(CurrentStore, h)

\* C5: a call of switch_to_fork leaves the base either with all writes of
\* the overlay and the best block of the overlay, or with the contents and
\* the best pointer it had before the call.
C5_SwitchToForkAtomic ==
    [][last'.op = "switch_to_fork" =>
          \/ /\ db' = FlushInto(db, fork_chain.overlay)
             /\ best_block' = fork_chain.best
          \/ /\ db' = db
             /\ best_block' = best_block]_vars

\* C6: fork, the decanonize / canonize / insert on the overlay, the checks
\* read through the overlay and the drop of the overlay leave the database
\* and the best block of the base as they were.
C6_ForkLeavesBase ==
    [][last'.op \in {"fork", "fork_insert", "fork_canonize", "fork_accept", "drop_fork"}
          => /\ db' = db
             /\ best_block' = best_block
             /\ (last'.op = "drop_fork" => fork_chain' = NoFork)]_vars

\* A fork whose overlay holds a canonized block the base does not have.
C6_OverlayAhead ==
    /\ fork_chain.live
    /\ last.op = "fork_canonize"
    /\ last.res = OK
    /\ fork_chain.best # best_block
    /\ ~contains_block(CurrentStore, last.arg)
    /\ contains_block(ForkStore, last.arg)

\* C7: transaction_meta(t) exists exactly when t is listed in a block of
\* the canonical chain.
C7_MetaIffCanonical ==
    LET chain == ChainTo(best_block.hash)
    IN \A t \in TxHashes :
           has_transaction_meta(CurrentStore, t)
               <=> \E i \in DOMAIN chain : t \in Range(Block(chain[i]).transactions)

\* C8: an (epoch, nullifier) pair is in the store exactly when a block of
\* the canonical chain reveals it under that epoch.
C8_NullifierIffCanonical ==
    LET chain == ChainTo(best_block.hash)
    IN \A epoch \in Epochs, n \in Nullifiers :
           contains_nullifier(CurrentStore, epoch, n)
               <=> \E i \in DOMAIN chain :
                       n \in Range(RevealedIn(Block(chain[i]).transactions, epoch))

\* The block reveals a nullifier that is in the store under the same epoch
\* or that it revealed at an earlier place.
RevealsDuplicate(s, h) ==
    \E epoch \in Epochs :
        LET nfs == RevealedIn(Block(h).transactions, epoch)
        IN \E j \in DOMAIN nfs :
               \/ contains_nullifier(s, epoch, nfs[j])
               \/ \E i \in DOMAIN nfs : i < j /\ nfs[i] = nfs[j]

\* C9: canonize of a stored block that reveals a duplicate nullifier, in
\* the store or earlier in the block, fails with CannotCanonize.
C9_DuplicateNullifierRejected ==
    \A h \in AllBlocks :
        (contains_block(CurrentStore, h) /\ RevealsDuplicate(CurrentStore, h))
            => canonize(CurrentStore, h, FALSE).res = CannotCanonize

\* C10: canonize succeeds only for a stored block whose parent is the best
\* block, and otherwise returns CannotCanonize and leaves the store alone;
\* on the base and on the store of a fork alike.
C10_CanonizeGuard ==
    LET Guarded(s, h) ==
            /\ contains_block(s, h)
            /\ block_header(s, h).previous_header_hash = s.best.hash
        Checked(s, h, r) ==
            /\ r.res = OK => Guarded(s, h)
            /\ ~Guarded(s, h) => (r.res = CannotCanonize /\ r.store = s)
    IN \A h \in AllBlocks, fail \in BOOLEAN :
           /\ Checked(CurrentStore, h, canonize(CurrentStore, h, fail))
           /\ fork_chain.live => Checked(ForkStore, h, canonize(ForkStore, h, FALSE))

\* canonize was refused for a stored block whose parent is not the best block.
C10_RefusedWrongParent ==
    /\ last.op = "canonize"
    /\ last.res = CannotCanonize
    /\ contains_block(CurrentStore, last.arg)
    /\ Header(last.arg).previous_header_hash # best_block.hash

(***************************************************************************)
(* Properties of the blocks writer                                         *)
(***************************************************************************)
\* C3: when C is appended to a store with the canonical chain G -> A and
\* the block B, the best block is C at height 2, the canonical chain is
\* G -> B -> C, and A is stored without height entry and without
\* transaction meta; and whenever a block is appended whose side chain is
\* higher than the canonical chain, it is on the canonical chain afterwards,
\* as its tip unless orphaned children of it followed.
C3_Reorganizes ==
    [][LET b == last'.arg
           parent == Header(b).previous_header_hash
           appended == /\ last'.op = "append_block"
                       /\ last'.res = OK
                       /\ ~contains_block(CurrentStore, b)
                       /\ contains_block(CurrentStore, parent)
       IN /\ (/\ appended
              /\ b = C
              /\ best_block = BestBlock(A, 1)
              /\ db.hashes = (0 :> G) @@ (1 :> A)
              /\ contains_block(CurrentStore, B))
                 => /\ best_block' = BestBlock(C, 2)
                    /\ db'.hashes = (0 :> G) @@ (1 :> B) @@ (2 :> C)
                    /\ db'.numbers = (G :> 0) @@ (B :> 1) @@ (C :> 2)
                    /\ contains_block(PostStore, A)
                    /\ block_transactions(PostStore, A) = Block(A).transactions
                    /\ ~has_block_number(PostStore, A)
                    /\ \A t \in Range(Block(A).transactions) :
                           ~has_transaction_meta(PostStore, t)
          /\ (/\ appended
              /\ parent # best_block.hash
              /\ Height(b) > best_block.number)
                 => /\ b \in Range(ChainTo(best_block'.hash))
                    /\ block_hash(PostStore, Height(b)) = b
                    /\ (\A c \in orphaned_blocks_pool :
                            Header(c).previous_header_hash # b)
                           => best_block' = BestBlock(b, Height(b))]_vars

\* C was appended as a side chain becoming the canonical chain, and A, once
\* canonical, is stored beside it.
C3_ReorganizedToC ==
    /\ last.op = "append_block"
    /\ last.arg = C
    /\ last.res = OK
    /\ last.origin = "SideChainBecomingCanonChain"
    /\ best_block = BestBlock(C, 2)
    /\ contains_block(CurrentStore, A)

(***************************************************************************)
(* Chains of calls on the store                                            *)
(***************************************************************************)
RECURSIVE InsertAndCanonize(_, _)
\* for block in blocks { insert(block); canonize(block.hash()) }, ended by
\* the first error.
InsertAndCanonize(s, blocks) ==
    LET Canonized(c) ==
            IF c.res # OK THEN c ELSE InsertAndCanonize(c.store, Tail(blocks))
        Inserted(i) ==
            IF i.res # OK THEN i ELSE Canonized(canonize(i.store, Head(blocks), FALSE))
    IN IF blocks = <<>> THEN Result(OK, s)
       ELSE Inserted(insert(s, Block(Head(blocks)), FALSE))

RECURSIVE RollbackTimes(_, _)
\* rollback_best() called d times, ended by the first error.
RollbackTimes(s, d) ==
    LET Rolled(r) ==
            IF r.res # OK THEN Result(r.res, r.store)
            ELSE RollbackTimes(r.store, d - 1)
    IN IF d = 0 THEN Result(OK, s)
       ELSE Rolled(rollback_best(s, FALSE, FALSE))

\* The blocks of the chain to h above the best block of s (none when the
\* best block is not on that chain).
Extension(s, h) ==
    LET chain == ChainTo(h)
        at == {i \in DOMAIN chain : chain[i] = s.best.hash}
    IN IF s.best.hash = ZERO THEN chain
       ELSE IF at = {} THEN <<>>
       ELSE SubSeq(chain, (CHOOSE i \in at : TRUE) + 1, Len(chain))

\* C11: after a chain of d blocks not yet stored is inserted and canonized
\* on top of the best block and rollback_best is called d times, the best
\* block and every column of the store are what they were before.
C11_RollbackRestores ==
    \A h \in BlockIds :
        LET Rolled(r) == r.res = OK /\ r.store = CurrentStore
            Extended(e, d) == e.res = OK => Rolled(RollbackTimes(e.store, d))
            Chain(ext) ==
                (ext # <<>> /\ \A i \in DOMAIN ext : ~contains_block(CurrentStore, ext[i]))
                    => Extended(InsertAndCanonize(CurrentStore, ext), Len(ext))
        IN Chain(Extension(CurrentStore, h))


\* C12: insert of a block that is stored returns Ok and leaves every column
\* and the best block as they are, whether or not the engine would accept a
\* write; on the base and on the store of a fork alike.
C12_InsertIdempotent ==
    LET Same(s, r) == r.res = OK /\ r.store = s
    IN \A b \in AllBlocks, fail \in BOOLEAN :
           /\ contains_block(CurrentStore, b)
                  => Same(CurrentStore, insert(CurrentStore, Block(b), fail))
           /\ (fork_chain.live /\ contains_block(ForkStore, b))
                  => Same(ForkStore, insert(ForkStore, Block(b), FALSE))

\* insert was called for a block that is on the canonical chain, hence was
\* stored before the call.
C12_InsertedAgain ==
    /\ last.op = "insert"
    /\ last.res = OK
    /\ has_block_number(CurrentStore, last.arg)

(***************************************************************************)
(* A store with the canonical chain G -> A beside which the long chain     *)
(* above G grows header by header, block_origin being asked for the        *)
(* header that comes next.                                                 *)
(***************************************************************************)
\* The long chain is grown to MaxSideChain blocks; block_origin is asked
\* for the headers that come after the first MinAskedDepth of them.
MaxSideChain == 2049
MinAskedDepth == 1990

\* The block of the long chain that is not stored yet.
NextSideBlock == SideBase + 1 + Cardinality({h \in DOMAIN db.headers : h > SideBase})

\* BlockChainDatabase::init_test_chain(vec![G, A])
InitSideChain ==
    LET Built(r) ==
            /\ db = r.store.kv.base
            /\ best_block = r.store.best
    IN /\ Built(InsertAndCanonize(open(BaseKv(EmptyDb)), <<G, A>>))
       /\ fork_chain = NoFork
       /\ orphaned_blocks_pool = {}
       /\ last = Call("init_test_chain", A, OK)
       /\ NodeIdle

\* block_origin(header of h); the kind of the origin is recorded.
BlockOrigin(h) ==
    /\ ~fork_chain.live
    /\ last' = Call("block_origin", h, block_origin(CurrentStore, h).kind)
    /\ UNCHANGED <<db, best_block, fork_chain, orphaned_blocks_pool>>

NextSideChain ==
    \/ /\ NextSideBlock <= SideBase + MaxSideChain
       /\ Insert(NextSideBlock, FALSE)
       /\ UNCHANGED nodeVars
    \/ /\ NextSideBlock > SideBase + MinAskedDepth
       /\ BlockOrigin(NextSideBlock)
       /\ UNCHANGED nodeVars

SpecSideChain == InitSideChain /\ [][NextSideChain]_vars

\* C13: for the header that comes next on the long chain (past the first
\* MinAskedDepth), whose side chain
\* above the canonical ancestor G counts depth headers with the new header,
\* block_origin answers AncientFork exactly when depth exceeds 2048 and a
\* side chain origin with the ancestor G and the height depth otherwise.
C13_AncientForkBeyondPreset ==
    LET depth == NextSideBlock - SideBase
        Classified(o) ==
            IF depth > MAX_FORK_ROUTE_PRESET THEN o.kind = AncientFork
            ELSE /\ IsSideChain(o)
                 /\ o.ancestor = 0
                 /\ o.block_number = depth
                 /\ Len(o.canonized_route) = depth - 1
    IN depth > MinAskedDepth => Classified(block_origin(CurrentStore, NextSideBlock))

\* block_origin answered AncientFork for the header above 2048 stored
\* headers of the side chain.
C13_AncientAt2049 ==
    /\ last.op = "block_origin"
    /\ last.res = AncientFork
    /\ last.arg = SideBase + MAX_FORK_ROUTE_PRESET + 1
    /\ contains_block(CurrentStore, SideBase + MAX_FORK_ROUTE_PRESET)

(***************************************************************************)
(* The blocks writer given blocks whose parent never arrives.              *)
(***************************************************************************)
\* The number of blocks without a known parent that are delivered.
MaxOrphans == 1026

NextOrphan ==
    OrphanBase + 1 + Cardinality({h \in orphaned_blocks_pool : h > OrphanBase})

NextOrphans ==
    \E b \in {B, C, NextOrphan} :
        /\ b <= OrphanBase + MaxOrphans
        /\ AppendBlock(b, 0)
        /\ UNCHANGED nodeVars

SpecOrphans == InitWriter /\ [][NextOrphans]_vars

(***************************************************************************)
(* The transaction acceptor.  A transaction under verification is its hash *)
(* (the catalogue gives its inputs, outputs and nullifiers; a transaction  *)
(* of the catalogue without inputs is a coinbase), its serialized size,    *)
(* its number of sigops and whether its input scripts fail.  The context   *)
(* ctx of a check is the pending block (the hashes of its transactions,    *)
(* empty for the NoopStore of the memory pool), the index of the           *)
(* transaction in it, the height and the verification level.               *)
(***************************************************************************)
\* consensus.max_transaction_size(height) and consensus.max_block_sigops(),
\* in the units of the sizes and sigops offered.
MaxTransactionSize == 3
MaxBlockSigops == 2

\* The width of a value accumulator (u64, i64) in the model.
ValueBits == 4

COINBASE_MATURITY == 100

U64_MAX == 2^ValueBits - 1
I64_MIN == 0 - 2^(ValueBits - 1)

\* The value of output index of the catalogue transaction h.
TxOutputValue(h, index) ==
    CASE h = 11 -> 5
      [] h = 12 -> 3
      [] h = 21 -> 5
      [] h = 22 -> 4
      [] h = 23 -> 3
      [] h = 24 -> 6
      [] h = 25 -> 1
      [] OTHER  -> 2

TxError(kind, a, b) == [err |-> kind, a |-> a, b |-> b]
TxOk == TxError("Ok", 0, 0)

\* r?; next
Try(r, next) == IF r # TxOk THEN r ELSE next

\* BlockChainDatabase::transaction_output(prevout, _).is_some(): the store
\* answers for the transactions that have meta only.
transaction_output(s, prevout) ==
    /\ has_transaction_meta(s, prevout.hash)
    /\ Has(s.kv, "txs", prevout.hash)
    /\ prevout.index < TxCat(prevout.hash).outputs

\* DuplexTransactionOutputProvider::transaction_output(prevout,
\* transaction_index).is_some(): the store first, then the first
\* transaction_index transactions of the pending block.
DuplexTransactionOutput(s, block, prevout, transaction_index) ==
    \/ transaction_output(s, prevout)
    \/ \E j \in DOMAIN block :
           /\ j <= transaction_index
           /\ block[j] = prevout.hash
           /\ prevout.index < TxCat(prevout.hash).outputs

TransactionSize(s, ctx, tx) ==
    IF tx.size > MaxTransactionSize THEN TxError("MaxSize", 0, 0) ELSE TxOk

\* The check that lets a duplicate pass when the pending block spends every
\* output of the earlier transaction.
TransactionBip30SpentInBlock(s, ctx, tx) ==
    IF /\ has_transaction_meta(s, tx.hash)
       /\ \E i \in DOMAIN transaction_meta(s, tx.hash).spent :
              /\ ~transaction_meta(s, tx.hash).spent[i]
              /\ ~\E j \in DOMAIN ctx.block :
                      OutPoint(tx.hash, i - 1) \in Range(TxCat(ctx.block[j]).inputs)
    THEN TxError("UnspentTransactionWithTheSameHash", 0, 0)
    ELSE TxOk

TransactionBip30(s, ctx, tx) ==
    IF /\ has_transaction_meta(s, tx.hash)
       /\ \E i \in DOMAIN transaction_meta(s, tx.hash).spent :
              ~transaction_meta(s, tx.hash).spent[i]
    THEN TxError("UnspentTransactionWithTheSameHash", 0, 0)
    ELSE TxOk

TransactionMissingInputs(s, ctx, tx) ==
    LET inputs == TxCat(tx.hash).inputs
        missing == {j \in DOMAIN inputs :
                       ~DuplexTransactionOutput(s, ctx.block, inputs[j], ctx.transaction_index)}
    IN IF missing = {} THEN TxOk
       ELSE TxError("Input", (CHOOSE j \in missing : \A k \in missing : j <= k) - 1, 0)

TransactionMaturity(s, ctx, tx) ==
    LET inputs == TxCat(tx.hash).inputs
    IN IF \E j \in DOMAIN inputs :
              /\ has_transaction_meta(s, inputs[j].hash)
              /\ transaction_meta(s, inputs[j].hash).coinbase
              /\ ctx.height < transaction_meta(s, inputs[j].hash).height + COINBASE_MATURITY
       THEN TxError("Maturity", 0, 0)
       ELSE TxOk

RECURSIVE Sum(_)
Sum(q) == IF q = <<>> THEN 0 ELSE Head(q) + Sum(Tail(q))

\* Transaction::total_spends of a catalogue transaction
total_spends(h) == Sum([i \in 1..TxCat(h).outputs |-> TxOutputValue(h, i - 1)])

\* Iterator::sum::<u64>: the sum when it is in range; beyond it a build with
\* overflow checks panics and a build without them wraps around.
sum_u64(q, overflow_checks) ==
    LET Summed(total) ==
            IF total <= U64_MAX THEN [panic |-> FALSE, value |-> total]
            ELSE IF overflow_checks THEN [panic |-> TRUE, value |-> 0]
            ELSE [panic |-> FALSE, value |-> total % (U64_MAX + 1)]
    IN Summed(Sum(q))

\* TransactionOverspent::check of a transaction with these inputs and this
\* total_spends(), in a build with or without overflow checks.
TransactionOverspent_check(s, block, inputs, spends, overflow_checks) ==
    LET Checked(available) ==
            IF available.panic THEN TxError(Panic, 0, 0)
            ELSE IF spends > available.value THEN TxError("Overspend", 0, 0)
            ELSE TxOk
    IN IF inputs = <<>> THEN TxOk
       ELSE Checked(sum_u64([j \in DOMAIN inputs |->
                                IF DuplexTransactionOutput(s, block, inputs[j], Len(block))
                                THEN TxOutputValue(inputs[j].hash, inputs[j].index) ELSE 0],
                            overflow_checks))

\* The check of a catalogue transaction.  The input values of a catalogue
\* transaction sum up below U64_MAX, where the two builds agree.
TransactionOverspent(s, ctx, tx) ==
    TransactionOverspent_check(s, ctx.block, TxCat(tx.hash).inputs, total_spends(tx.hash), TRUE)

TransactionSigops(s, ctx, tx) ==
    IF tx.sigops > MaxBlockSigops THEN TxError("MaxSigops", 0, 0) ELSE TxOk

TransactionDoubleSpend(s, ctx, tx) ==
    LET inputs == TxCat(tx.hash).inputs
        spent == {j \in DOMAIN inputs : is_spent(s, inputs[j])}
        first == CHOOSE j \in spent : \A k \in spent : j <= k
    IN IF spent = {} THEN TxOk
       ELSE TxError("UsingSpentOutput", inputs[first].hash, inputs[first].index)

TransactionEval(s, ctx, tx) ==
    LET inputs == TxCat(tx.hash).inputs
        failing == {j \in DOMAIN inputs :
                       \/ ~DuplexTransactionOutput(s, ctx.block, inputs[j], Len(ctx.block))
                       \/ tx.bad_script}
        first == CHOOSE j \in failing : \A k \in failing : j <= k
    IN IF ctx.level \in {"Header", "NoVerification"} THEN TxOk
       ELSE IF inputs = <<>> \/ failing = {} THEN TxOk
       ELSE IF ~DuplexTransactionOutput(s, ctx.block, inputs[first], Len(ctx.block))
       THEN TxError("UnknownReference", inputs[first].hash, 0)
       ELSE TxError("Signature", first - 1, 0)

\* TransactionAcceptor::check
TransactionAcceptor(s, ctx, tx) ==
    Try(TransactionSize(s, ctx, tx),
    Try(TransactionBip30(s, ctx, tx),
    Try(TransactionMissingInputs(s, ctx, tx),
    Try(TransactionMaturity(s, ctx, tx),
    Try(TransactionOverspent(s, ctx, tx),
    Try(TransactionDoubleSpend(s, ctx, tx),
        TransactionEval(s, ctx, tx)))))))

\* MemoryPoolTransactionAcceptor::check
MemoryPoolTransactionAcceptor(s, ctx, tx) ==
    Try(TransactionMissingInputs(s, ctx, tx),
    Try(TransactionMaturity(s, ctx, tx),
    Try(TransactionOverspent(s, ctx, tx),
    Try(TransactionSigops(s, ctx, tx),
    Try(TransactionDoubleSpend(s, ctx, tx),
        TransactionEval(s, ctx, tx))))))

\* checked_transaction_fee over a transaction given by its inputs, the
\* values of its outputs, its JoinSplit descriptions and the balancing
\* value of its Sapling part; -1 stands for the None of a checked sum.
CheckedAdd(a, b) == IF a < 0 \/ a + b > U64_MAX THEN 0 - 1 ELSE a + b

RECURSIVE FeeIncoming(_, _, _, _, _)
FeeIncoming(s, tx_idx, inputs, input_idx, incoming) ==
    IF input_idx >= Len(inputs) THEN TxError("Ok", incoming, 0)
    ELSE IF ~transaction_output(s, inputs[input_idx + 1])
    THEN TxError("Input", input_idx, 0)
    ELSE IF CheckedAdd(incoming, TxOutputValue(inputs[input_idx + 1].hash,
                                               inputs[input_idx + 1].index)) < 0
    THEN TxError("InputValueOverflow", 0, 0)
    ELSE FeeIncoming(s, tx_idx, inputs, input_idx + 1,
                     incoming + TxOutputValue(inputs[input_idx + 1].hash,
                                              inputs[input_idx + 1].index))

RECURSIVE CheckedSum(_, _)
CheckedSum(acc, q) ==
    IF q = <<>> \/ acc < 0 THEN acc ELSE CheckedSum(CheckedAdd(acc, Head(q)), Tail(q))

checked_transaction_fee(s, tx_idx, tx) ==
    LET Spent(spends) ==
            IF tx.balancing_value >= 0 THEN spends
            ELSE IF tx.balancing_value = I64_MIN THEN 0 - 1
            ELSE CheckedAdd(spends, 0 - tx.balancing_value)
        Fee(incoming, spends) ==
            IF incoming < 0 THEN TxError("InputValueOverflow", 0, 0)
            ELSE IF spends < 0 THEN TxError("OutputValueOverflow", 0, 0)
            ELSE IF incoming < spends THEN TxError("Overspend", 0, 0)
            ELSE TxError("Ok", incoming - spends, 0)
        Received(r) ==
            IF r.err # "Ok" THEN r
            ELSE Fee(CheckedAdd(CheckedSum(r.a, [i \in DOMAIN tx.descriptions |->
                                                    tx.descriptions[i].value_pub_new]),
                                IF tx.balancing_value > 0 THEN tx.balancing_value ELSE 0),
                     Spent(CheckedSum(Sum(tx.outputs),
                                      [i \in DOMAIN tx.descriptions |->
                                          tx.descriptions[i].value_pub_old])))
    IN Received(FeeIncoming(s, tx_idx, tx.inputs, 0, 0))

(***************************************************************************)
(* The acceptor over the stores init_test_chain builds from the chains of  *)
(* the catalogue.  The store does not change; every step is one call.      *)
(***************************************************************************)
\* The pending blocks offered: the blocks of the catalogue up to F, a
\* block that repeats the coinbase of G and then spends it, and a block
\* whose second transaction spends the block's own coinbase.
PendingBlocks ==
    {Block(h).transactions : h \in {G, A, B, C, 5, 8}} \cup {<<11, 24>>, <<12, 23>>}

\* The heights offered: a coinbase of height 0 is mature at both, one of
\* height 1 or 2 at the second only.
Heights == {100, 102}

Candidate(h, size, sigops, bad) ==
    [hash |-> h, size |-> size, sigops |-> sigops, bad_script |-> bad]

\* Size, sigops and failing scripts of the candidates, with the level each
\* is verified at in a block.
Shapes ==
    {<<MaxTransactionSize, MaxBlockSigops, FALSE, "Full">>,
     <<MaxTransactionSize + 1, MaxBlockSigops, FALSE, "Full">>,
     <<MaxTransactionSize, MaxBlockSigops + 1, FALSE, "Full">>,
     <<MaxTransactionSize, MaxBlockSigops, TRUE, "Full">>,
     <<MaxTransactionSize, MaxBlockSigops + 1, TRUE, "Full">>,
     <<MaxTransactionSize + 1, MaxBlockSigops + 1, TRUE, "Full">>,
     <<MaxTransactionSize, MaxBlockSigops, TRUE, "Header">>}

JoinSplit(new, old) == [value_pub_new |-> new, value_pub_old |-> old]

FeeCandidates ==
    [inputs : {<<OutPoint(11, 0)>>, <<OutPoint(11, 0), OutPoint(19, 0)>>,
               <<OutPoint(11, 0), OutPoint(12, 0), OutPoint(11, 0), OutPoint(11, 0)>>},
     outputs : {<<1>>, <<6>>},
     descriptions : {<<>>, <<JoinSplit(2, 1)>>, <<JoinSplit(U64_MAX, 0)>>,
                     <<JoinSplit(0, U64_MAX)>>},
     balancing_value : {0, 3, 0 - 3, I64_MIN}]

InitAcceptor ==
    LET Built(r) ==
            /\ db = r.store.kv.base
            /\ best_block = r.store.best
    IN /\ \E h \in BlockIds \cup {ZERO} :
              /\ Built(InsertAndCanonize(open(BaseKv(EmptyDb)), ChainTo(h)))
              /\ last = Call("init_test_chain", [chain |-> ChainTo(h)], TxOk)
       /\ fork_chain = NoFork
       /\ orphaned_blocks_pool = {}
       /\ NodeIdle

AcceptBlockTransaction(block, transaction_index, height, level, tx) ==
    LET ctx == [block |-> block, transaction_index |-> transaction_index,
                height |-> height, level |-> level]
    IN /\ last' = Call("TransactionAcceptor", [ctx |-> ctx, tx |-> tx],
                       TransactionAcceptor(CurrentStore, ctx, tx))
       /\ UNCHANGED <<db, best_block, fork_chain, orphaned_blocks_pool>>

AcceptMempoolTransaction(height, tx) ==
    LET ctx == [block |-> <<>>, transaction_index |-> 0,
                height |-> height, level |-> "Full"]
    IN /\ last' = Call("MemoryPoolTransactionAcceptor", [ctx |-> ctx, tx |-> tx],
                       MemoryPoolTransactionAcceptor(CurrentStore, ctx, tx))
       /\ UNCHANGED <<db, best_block, fork_chain, orphaned_blocks_pool>>

CheckedTransactionFee(tx_idx, tx) ==
    /\ last' = Call("checked_transaction_fee", [tx_idx |-> tx_idx, tx |-> tx],
                    checked_transaction_fee(CurrentStore, tx_idx, tx))
    /\ UNCHANGED <<db, best_block, fork_chain, orphaned_blocks_pool>>

NextAcceptor ==
    \/ \E block \in PendingBlocks, height \in Heights, shape \in Shapes :
           \E i \in DOMAIN block :
               AcceptBlockTransaction(block, i - 1, height, shape[4],
                                      Candidate(block[i], shape[1], shape[2], shape[3]))
               /\ UNCHANGED nodeVars
    \/ \E h \in TxHashes, height \in Heights, shape \in Shapes :
           /\ shape[4] = "Full"
           /\ AcceptMempoolTransaction(height, Candidate(h, shape[1], shape[2], shape[3]))
           /\ UNCHANGED nodeVars
    \/ \E tx \in FeeCandidates : CheckedTransactionFee(0, tx) /\ UNCHANGED nodeVars

SpecAcceptor == InitAcceptor /\ [][NextAcceptor]_vars

(***************************************************************************)
(* The chain verifier.  A block under verification is its hash (the        *)
(* catalogue gives its parent), the hashes of its transactions, its        *)
(* serialized size, its sigops and whether its merkle root matches.  A     *)
(* verification level is a set of flags.  The result carries the steps     *)
(* that ran, in order.                                                     *)
(***************************************************************************)
\* consensus.max_block_size(), in the units of the sizes offered.
MaxBlockSize == 4

Verified(r, ran) == [res |-> r, ran |-> ran]

\* Error::Transaction(index, error)
Transaction(index, e) == [err |-> "Transaction", index |-> index, error |-> e]

\* BlockVerifier::check
BlockVerifier(block) ==
    LET txs == block.transactions
        misplaced == {i \in DOMAIN txs : i > 1 /\ TxCat(txs[i]).inputs = <<>>}
    IN IF txs = <<>> THEN TxError("Empty", 0, 0)
       ELSE IF TxCat(txs[1]).inputs # <<>> THEN TxError("Coinbase", 0, 0)
       ELSE IF block.size > MaxBlockSize THEN TxError("Size", block.size, 0)
       ELSE IF misplaced # {}
       THEN Transaction((CHOOSE i \in misplaced : \A k \in misplaced : i <= k) - 1,
                        TxError("MisplacedCoinbase", 0, 0))
       ELSE IF Cardinality(Range(txs)) # Len(txs) THEN TxError("DuplicatedTransactions", 0, 0)
       ELSE IF block.sigops > MaxBlockSigops THEN TxError("MaximumSigops", 0, 0)
       ELSE IF ~block.merkle_ok THEN TxError("MerkleRoot", 0, 0)
       ELSE TxOk

\* ChainAcceptor::check_transactions: the error of the transaction of the
\* lowest index that fails.
check_transactions(s, block, height, level) ==
    LET Checked(i) ==
            TransactionAcceptor(s, [block |-> block.transactions, transaction_index |-> i - 1,
                                    height |-> height, level |-> level],
                                Candidate(block.transactions[i], MaxTransactionSize,
                                          MaxBlockSigops, FALSE))
        failing == {i \in DOMAIN block.transactions : Checked(i) # TxOk}
        First(i) == Transaction(i - 1, Checked(i))
    IN IF failing = {} THEN TxOk
       ELSE First(CHOOSE i \in failing : \A k \in failing : i <= k)

\* the gate that asks for the level to be NO_VERIFICATION and nothing else
NoVerificationOnly(level) == level = {"NO_VERIFICATION"}

\* verification_level.intersects(VerificationLevel::NO_VERIFICATION)
NoVerification(level) == level \cap {"NO_VERIFICATION"} # {}

\* BackwardsCompatibleChainVerifier::verify_block
verify_block(s, level, block) ==
    LET lvl == IF "FULL" \in level THEN "Full" ELSE "Header"
        Forked(f, o) ==
            IF f.res # OK
            THEN Verified(TxError(f.res, 0, 0), <<"pre_verification", "block_origin", "fork">>)
            ELSE Verified(check_transactions(f.store, block, o.block_number, lvl),
                          <<"pre_verification", "block_origin", "fork", "chain_acceptor">>)
        Placed(o) ==
            IF o.kind \in {Panic, UnknownParent, AncientFork, "KnownBlock"}
            THEN Verified(TxError(IF o.kind = "KnownBlock" THEN Panic ELSE o.kind, 0, 0),
                          <<"pre_verification", "block_origin">>)
            ELSE IF o.kind = "CanonChain"
            THEN Verified(check_transactions(s, block, o.block_number, lvl),
                          <<"pre_verification", "block_origin", "chain_acceptor">>)
            ELSE Forked(fork(s, o), o)
        PreVerified(r) ==
            IF r.err # "Ok" THEN Verified(r, <<"pre_verification">>)
            ELSE IF ~BestIsCanon(s)
            THEN Verified(TxError(Panic, 0, 0), <<"pre_verification", "best_block">>)
            ELSE Placed(block_origin(s, block.hash))
    IN IF NoVerification(level) THEN Verified(TxOk, <<>>)
       ELSE PreVerified(BlockVerifier(block))

\* The blocks offered to verify: every block of the catalogue as it is,
\* without transactions, oversized, with too many sigops and with a wrong
\* merkle root.
VerifiedBlocks ==
    UNION {{[hash |-> h, transactions |-> txs, size |-> size, sigops |-> MaxBlockSigops,
             merkle_ok |-> TRUE] :
               txs \in {Block(h).transactions, <<>>},
               size \in {MaxBlockSize, MaxBlockSize + 1}}
           \cup {[hash |-> h, transactions |-> Block(h).transactions, size |-> MaxBlockSize,
                  sigops |-> sigops, merkle_ok |-> merkle_ok] :
               sigops \in {MaxBlockSigops, MaxBlockSigops + 1},
               merkle_ok \in BOOLEAN} : h \in AllBlocks}

Levels ==
    {{"FULL"}, {"HEADER"}, {"NO_VERIFICATION"}, {"FULL", "HINT_HEADER_PRE_VERIFIED"},
     {"NO_VERIFICATION", "HINT_HEADER_PRE_VERIFIED"}}

Verify(level, block) ==
    /\ last' = Call("verify", [level |-> level, block |-> block],
                    verify_block(CurrentStore, level, block))
    /\ UNCHANGED <<db, best_block, fork_chain, orphaned_blocks_pool>>

NextVerifier == \E level \in Levels, block \in VerifiedBlocks :
        Verify(level, block) /\ UNCHANGED nodeVars

SpecVerifier == InitAcceptor /\ [][NextVerifier]_vars

(***************************************************************************)
(* LocalNode::accept_transaction.  The caller hands the transaction and a  *)
(* sink to the client; when the client takes it, the verifier thread       *)
(* posts the result to the sink and the caller waits for it on the sink's  *)
(* condition variable.  result is the Option under the sink's mutex (empty *)
(* or one result), lock the holder of that mutex, waiter whether a thread  *)
(* is parked on the condition variable.                                    *)
(***************************************************************************)
VerificationOk(hash) == [ok |-> TRUE, hash |-> hash, err |-> ""]
VerificationErr(err) == [ok |-> FALSE, hash |-> 0, err |-> err]

\* The transactions given to accept_transaction and the messages of the
\* errors the client and the verifier answer with.
LocalTransactions == {21, 22, 23}
ErrorMessages == {"already in memory pool", "verification failed", "not in saturated state"}

\* the wait that parks without looking at the result
wait_unchecked(data) ==
    [data |-> [data EXCEPT !.waiter = TRUE, !.lock = ""], pc |-> "parked", returned |-> <<>>]

\* TransactionAcceptSinkData::wait, with the lock taken: the result that is
\* there is taken and returned; otherwise waiter.wait gives the lock up and
\* parks the thread.
wait(data) ==
    IF data.result # <<>>
    THEN [data |-> [data EXCEPT !.result = <<>>, !.lock = ""],
          pc |-> "returned", returned |-> data.result]
    ELSE [data |-> [data EXCEPT !.waiter = TRUE, !.lock = ""],
          pc |-> "parked", returned |-> <<>>]

\* accept_transaction up to the answer of client.accept_transaction: an
\* error is returned at once, otherwise the sink is with the verifier.  The
\* sink is new with every call.
AcceptTransaction(tx, refusal) ==
    /\ caller.pc \in {"idle", "returned"}
    /\ verifier.pc \in {"idle", "done"}
    /\ sink_data' = [result |-> <<>>, waiter |-> FALSE, lock |-> ""]
    /\ IF refusal # ""
       THEN /\ caller' = [pc |-> "returned", transaction |-> tx, refused |-> TRUE,
                          waited |-> FALSE, returned |-> <<VerificationErr(refusal)>>]
            /\ verifier' = [pc |-> "idle", posted |-> <<>>]
       ELSE /\ caller' = [pc |-> "wait", transaction |-> tx, refused |-> FALSE,
                          waited |-> FALSE, returned |-> <<>>]
            /\ verifier' = [pc |-> "verifying", posted |-> <<>>]
    /\ UNCHANGED <<client, server>>

\* let mut lock = self.result.lock()
WaitLock ==
    /\ caller.pc = "wait"
    /\ sink_data.lock = ""
    /\ sink_data' = [sink_data EXCEPT !.lock = "caller"]
    /\ caller' = [caller EXCEPT !.pc = "locked"]
    /\ UNCHANGED <<verifier, client, server>>

Wait ==
    LET Waited(w) ==
            /\ sink_data' = w.data
            /\ caller' = [caller EXCEPT !.pc = w.pc, !.returned = w.returned,
                                         !.waited = (w.pc = "parked")]
    IN /\ caller.pc = "locked"
       /\ Waited(wait(sink_data))
       /\ UNCHANGED <<verifier, client, server>>

\* on_transaction_verification_success / _error, first statement:
\* *self.data.result.lock() = Some(..)
Post(outcome) ==
    /\ verifier.pc = "verifying"
    /\ sink_data.lock = ""
    /\ sink_data' = [sink_data EXCEPT !.result = <<outcome>>]
    /\ verifier' = [pc |-> "notify", posted |-> <<outcome>>]
    /\ UNCHANGED <<caller, client, server>>

\* self.data.waiter.notify_all()
NotifyAll ==
    /\ verifier.pc = "notify"
    /\ sink_data' = [sink_data EXCEPT !.waiter = FALSE]
    /\ caller' = IF sink_data.waiter THEN [caller EXCEPT !.pc = "woken"] ELSE caller
    /\ verifier' = [verifier EXCEPT !.pc = "done"]
    /\ UNCHANGED <<client, server>>

\* waiter.wait returns with the lock taken again; lock.take().expect(..)
Woken ==
    /\ caller.pc = "woken"
    /\ sink_data.lock = ""
    /\ sink_data' = [sink_data EXCEPT !.result = <<>>]
    /\ caller' = IF sink_data.result = <<>> THEN [caller EXCEPT !.pc = "panicked"]
                 ELSE [caller EXCEPT !.pc = "returned", !.returned = sink_data.result]
    /\ UNCHANGED <<verifier, client, server>>

InitNode ==
    /\ db = EmptyDb
    /\ best_block = read_best_block(BaseKv(EmptyDb))
    /\ fork_chain = NoFork
    /\ orphaned_blocks_pool = {}
    /\ last = Call("new", 0, OK)
    /\ NodeIdle

NextAcceptTransaction ==
    \/ \E tx \in LocalTransactions, refusal \in ErrorMessages \cup {""} :
           AcceptTransaction(tx, refusal) /\ UNCHANGED <<db, best_block, fork_chain, orphaned_blocks_pool, last>>
    \/ WaitLock /\ UNCHANGED <<db, best_block, fork_chain, orphaned_blocks_pool, last>>
    \/ Wait /\ UNCHANGED <<db, best_block, fork_chain, orphaned_blocks_pool, last>>
    \/ \E outcome \in {VerificationOk(caller.transaction)}
                          \cup {VerificationErr(m) : m \in ErrorMessages} :
           Post(outcome) /\ UNCHANGED <<db, best_block, fork_chain, orphaned_blocks_pool, last>>
    \/ NotifyAll /\ UNCHANGED <<db, best_block, fork_chain, orphaned_blocks_pool, last>>
    \/ Woken /\ UNCHANGED <<db, best_block, fork_chain, orphaned_blocks_pool, last>>

SpecAcceptTransaction == InitNode /\ [][NextAcceptTransaction]_vars

(***************************************************************************)
(* LocalNode::on_getheaders.  The server task is wrapped in a lazy future  *)
(* and given to the client, which runs it at once or keeps it until the    *)
(* blocks of the peer that are in verification are through.  server is the *)
(* sequence of the tasks the server was given to execute.                  *)
(***************************************************************************)
MaxRequests == 3
PeerBlocks == {A, B}

GetHeaders(peer_index, id) == [task |-> "GetHeaders", peer_index |-> peer_index, id |-> id]

RECURSIVE Waiting(_, _)
Waiting(c, peers) ==
    IF peers = {} THEN 0
    ELSE LET p == CHOOSE x \in peers : TRUE
         IN Len(c.verifying_blocks_futures[p]) + Waiting(c, peers \ {p})

\* Client::after_peer_nearly_blocks_verified: the future runs now when no
\* block of the peer is in verification, and after the last of them otherwise.
after_peer_nearly_blocks_verified(c, srv, peer_index, future) ==
    IF c.verifying_blocks_by_peer[peer_index] = {}
    THEN [client |-> c, server |-> Append(srv, future)]
    ELSE [client |-> [c EXCEPT !.verifying_blocks_futures[peer_index] = Append(@, future)],
          server |-> srv]

\* on_block: the client puts the block of the peer in verification
OnBlock(peer_index, block) ==
    /\ block \notin client.verifying_blocks_by_peer[peer_index]
    /\ client' = [client EXCEPT !.verifying_blocks_by_peer[peer_index] = @ \cup {block}]
    /\ UNCHANGED <<server, sink_data, caller, verifier>>

\* The verification of a block of the peer has ended (with success or with
\* an error); with the last one the futures kept for the peer run, in the
\* order they came.
OnBlockVerified(peer_index, block) ==
    LET left == client.verifying_blocks_by_peer[peer_index] \ {block}
    IN /\ block \in client.verifying_blocks_by_peer[peer_index]
       /\ IF left = {}
          THEN /\ client' = [client EXCEPT !.verifying_blocks_by_peer[peer_index] = {},
                                           !.verifying_blocks_futures[peer_index] = <<>>]
               /\ server' = server \o client.verifying_blocks_futures[peer_index]
          ELSE /\ client' = [client EXCEPT !.verifying_blocks_by_peer[peer_index] = left]
               /\ UNCHANGED server
       /\ UNCHANGED <<sink_data, caller, verifier>>

\* the request served like getblocks: self.server.execute(task)
OnGetHeadersAtOnce(peer_index) ==
    /\ Len(server) < MaxRequests
    /\ server' = Append(server, GetHeaders(peer_index, Len(server) + 1))
    /\ UNCHANGED <<client, sink_data, caller, verifier>>

OnGetHeaders(peer_index) ==
    LET id == Len(server) + Waiting(client, Peers) + 1
        Given(r) == client' = r.client /\ server' = r.server
    IN /\ id <= MaxRequests
       /\ Given(after_peer_nearly_blocks_verified(client, server, peer_index,
                                                  GetHeaders(peer_index, id)))
       /\ UNCHANGED <<sink_data, caller, verifier>>

NextGetHeaders ==
    \/ \E p \in Peers, b \in PeerBlocks :
           OnBlock(p, b) /\ UNCHANGED <<db, best_block, fork_chain, orphaned_blocks_pool, last>>
    \/ \E p \in Peers, b \in PeerBlocks :
           OnBlockVerified(p, b) /\ UNCHANGED <<db, best_block, fork_chain, orphaned_blocks_pool, last>>
    \/ \E p \in Peers :
           OnGetHeaders(p) /\ UNCHANGED <<db, best_block, fork_chain, orphaned_blocks_pool, last>>

SpecGetHeaders == InitNode /\ [][NextGetHeaders]_vars

(***************************************************************************)
(* The block assembler.  A memory pool entry is known by its hash, its     *)
(* size, the sigops transaction_sigops counts for it, whether it is final  *)
(* in the block, the hashes its inputs spend and its miner fee; the memory *)
(* pool iterator is the sequence of the entries in the order it gives      *)
(* them.                                                                   *)
(***************************************************************************)
\* 4 + 32 + 32 + 32 + 4 + 4 + 32 + 1344
BLOCK_HEADER_SIZE == 1484

\* size_buffer of the two policies and finish_limit of both (1_000, 8 and 50
\* in FittingTransactionsIterator::new)
SizeBuffer == 2
SigopsBuffer == 1
FinishLimit == 2

MaxMempool == 3
PoolBase == 40

SizePolicy(current_size, max_size, size_buffer, finish_limit) ==
    [current_size |-> current_size, max_size |-> max_size, size_buffer |-> size_buffer,
     finish_counter |-> 0, finish_limit |-> finish_limit]

\* NextStep::and
and(self, other) ==
    CASE other = "FinishAndIgnore" \/ self = "FinishAndIgnore"
           \/ (self = "FinishAndAppend" /\ other = "Ignore")
           \/ (self = "Ignore" /\ other = "FinishAndAppend") -> "FinishAndIgnore"
      [] self = "Ignore" \/ other = "Ignore" -> "Ignore"
      [] other = "FinishAndAppend" \/ self = "FinishAndAppend" -> "FinishAndAppend"
      [] OTHER -> "Append"

\* SizePolicy::decide: the step and the policy with its finish counter
\* decide counting every call, whether made in finishing mode or not
decide_counting_all(self, size) ==
    LET fits == self.current_size + size <= self.max_size
        finish == self.finish_counter + 1 >= self.finish_limit
    IN [policy |-> [self EXCEPT !.finish_counter = @ + 1],
        step |-> CASE fits /\ finish -> "FinishAndAppend"
                   [] fits /\ ~finish -> "Append"
                   [] ~fits /\ finish -> "FinishAndIgnore"
                   [] OTHER -> "Ignore"]

decide(self, size) ==
    LET finishing == self.current_size + self.size_buffer > self.max_size
        fits == self.current_size + size <= self.max_size
        finish == self.finish_counter + 1 >= self.finish_limit
    IN [policy |-> [self EXCEPT !.finish_counter = IF finishing THEN @ + 1 ELSE @],
        step |-> CASE fits /\ finish -> "FinishAndAppend"
                   [] fits /\ ~finish -> "Append"
                   [] ~fits /\ finish -> "FinishAndIgnore"
                   [] OTHER -> "Ignore"]

\* SizePolicy::apply
apply(self, size) == [self EXCEPT !.current_size = @ + size]

\* FittingTransactionsIterator::new
FittingTransactionsIterator(iter, max_block_size, max_block_sigops) ==
    [iter |-> iter,
     block_size |-> SizePolicy(BLOCK_HEADER_SIZE + 4, max_block_size, SizeBuffer, FinishLimit),
     sigops |-> SizePolicy(0, max_block_sigops, SigopsBuffer, FinishLimit),
     previous_entries |-> <<>>,
     ignored |-> {},
     finished |-> FALSE]

FinishCounters(it) == <<it.block_size.finish_counter, it.sigops.finish_counter>>

\* One turn of the loop of next() for the entry the memory pool gives: the
\* iterator after it, the entry when it is yielded, and what became of it.
Consider(it, entry) ==
    LET size_step == decide(it.block_size, entry.size)
        sigops_step == decide(it.sigops, entry.sigops)
        decided == [it EXCEPT !.iter = Tail(@),
                              !.block_size = size_step.policy,
                              !.sigops = sigops_step.policy]
        step == and(size_step.step, sigops_step.step)
        appended == [decided EXCEPT !.block_size = apply(@, entry.size),
                                    !.sigops = apply(@, entry.size),
                                    !.previous_entries = Append(@, entry)]
    IN IF ~entry.final
       THEN [it |-> decided, item |-> <<>>, outcome |-> "not final"]
       ELSE IF it.ignored # {} /\ entry.inputs \cap it.ignored # {}
       THEN [it |-> decided, item |-> <<>>, outcome |-> "ignored parent"]
       ELSE CASE step = "Append" -> [it |-> appended, item |-> <<entry>>, outcome |-> step]
              [] step = "FinishAndAppend" ->
                     [it |-> [appended EXCEPT !.finished = TRUE], item |-> <<entry>>,
                      outcome |-> step]
              [] step = "Ignore" -> [it |-> decided, item |-> <<>>, outcome |-> step]
              [] OTHER -> [it |-> [decided EXCEPT !.ignored = @ \cup {entry.hash},
                                                  !.finished = TRUE],
                           item |-> <<>>, outcome |-> step]

\* What next() has seen of an entry: its outcome and the finish counters of
\* the two policies before and after.
Considered(it, entry, c) ==
    [entry |-> entry, outcome |-> c.outcome, ignored |-> c.it.ignored,
     before |-> FinishCounters(it), after |-> FinishCounters(c.it)]

\* FittingTransactionsIterator::next
RECURSIVE next(_, _)
next(it, considered) ==
    IF it.finished THEN [it |-> it, item |-> <<>>, considered |-> considered]
    ELSE IF it.iter = <<>>
    THEN [it |-> [it EXCEPT !.finished = TRUE], item |-> <<>>, considered |-> considered]
    ELSE LET c == Consider(it, Head(it.iter))
             seen == Append(considered, Considered(it, Head(it.iter), c))
         IN IF c.item # <<>> THEN [it |-> c.it, item |-> c.item, considered |-> seen]
            ELSE next(c.it, seen)

\* The rewards of ConsensusParams: the founders are paid a fifth of the
\* block reward up to the last founder reward height.
LastFounderRewardHeight == 2
block_reward(height) == 5
founder_address(height) == IF height > 0 /\ height <= LastFounderRewardHeight THEN <<"t3">> ELSE <<>>
founder_reward(height) == IF founder_address(height) # <<>> THEN block_reward(height) \div 5 ELSE 0
miner_reward(height) == block_reward(height) - founder_reward(height)

\* the fees of every entry of the memory pool
RECURSIVE all_fees(_, _)
all_fees(it, miner_reward_so_far) ==
    IF it.iter = <<>> THEN [it |-> it, transactions |-> <<>>, miner_reward |-> miner_reward_so_far,
                            considered |-> <<>>]
    ELSE all_fees([it EXCEPT !.iter = Tail(@)],
                  (miner_reward_so_far + Head(it.iter).miner_fee) % (U64_MAX + 1))

\* for entry in tx_iter { miner_reward += entry.miner_fee as u64; .. }
RECURSIVE fitting_transactions(_, _)
fitting_transactions(it, miner_reward_so_far) ==
    LET n == next(it, <<>>)
        rest == fitting_transactions(n.it, (miner_reward_so_far + n.item[1].miner_fee)
                                               % (U64_MAX + 1))
    IN IF n.item = <<>>
       THEN [it |-> n.it, transactions |-> <<>>, miner_reward |-> miner_reward_so_far,
             considered |-> n.considered]
       ELSE [rest EXCEPT !.transactions = n.item \o @,
                         !.considered = n.considered \o @]

\* BlockAssembler::create_new_block: the transactions of the template and
\* the outputs of its coinbase
create_new_block(best, it) ==
    LET height == best.number + 1
        fitting == fitting_transactions(it, miner_reward(height))
    IN [height |-> height,
        previous_header_hash |-> best.hash,
        transactions |-> fitting.transactions,
        considered |-> fitting.considered,
        it |-> fitting.it,
        coinbase_tx |-> [outputs |-> <<fitting.miner_reward>>
                                     \o (IF founder_address(height) # <<>>
                                         THEN <<founder_reward(height)>> ELSE <<>>)]]

\* The entries of the memory pool: at place i the entry 40 + i; a child
\* spends an output of the entry before it, the others spend stored outputs.
EntryShapes ==
    { [size |-> 1, sigops |-> 0, final |-> TRUE, child |-> FALSE, miner_fee |-> 1],
      [size |-> 3, sigops |-> 0, final |-> TRUE, child |-> FALSE, miner_fee |-> 2],
      [size |-> 1, sigops |-> 2, final |-> TRUE, child |-> FALSE, miner_fee |-> 1],
      [size |-> 1, sigops |-> 0, final |-> FALSE, child |-> FALSE, miner_fee |-> 1],
      [size |-> 1, sigops |-> 0, final |-> TRUE, child |-> TRUE, miner_fee |-> 2],
      [size |-> 3, sigops |-> 2, final |-> TRUE, child |-> TRUE, miner_fee |-> 0] }

Entry(i, shape) ==
    [hash |-> PoolBase + i, size |-> shape.size, sigops |-> shape.sigops, final |-> shape.final,
     inputs |-> IF shape.child /\ i > 1 THEN {PoolBase + i - 1} ELSE {11},
     miner_fee |-> shape.miner_fee]

MemoryPools ==
    UNION { { [i \in 1..n |-> Entry(i, shapes[i])] : shapes \in [1..n -> EntryShapes] }
            : n \in 0..MaxMempool }

Assemblers ==
    { [max_block_size |-> BLOCK_HEADER_SIZE + 4 + 4, max_block_sigops |-> 3],
      [max_block_size |-> BLOCK_HEADER_SIZE + 4 + 6, max_block_sigops |-> 4] }

AssemblerResult(it, item, considered, template) ==
    [it |-> it, item |-> item, considered |-> considered, template |-> template]

InitAssembler ==
    LET Built(r) ==
            /\ db = r.store.kv.base
            /\ best_block = r.store.best
    IN /\ \E h \in {G, A, B} : Built(InsertAndCanonize(open(BaseKv(EmptyDb)), ChainTo(h)))
       /\ \E pool \in MemoryPools, assembler \in Assemblers :
              last = Call("new", [memory_pool |-> pool, assembler |-> assembler],
                          AssemblerResult(
                              FittingTransactionsIterator(pool, assembler.max_block_size,
                                                          assembler.max_block_sigops),
                              <<>>, <<>>, <<>>))
       /\ fork_chain = NoFork
       /\ orphaned_blocks_pool = {}
       /\ NodeIdle

\* tx_iter.next(), until it has answered None
FittingNext ==
    LET Answered(n) ==
            last' = Call("next", last.arg,
                         AssemblerResult(n.it, n.item, last.res.considered \o n.considered, <<>>))
    IN /\ last.op = "new" \/ (last.op = "next" /\ last.res.item # <<>>)
       /\ Answered(next(last.res.it, <<>>))
       /\ UNCHANGED <<db, best_block, fork_chain, orphaned_blocks_pool>>
       /\ UNCHANGED nodeVars

CreateNewBlock ==
    LET Created(t) ==
            last' = Call("create_new_block", last.arg,
                         AssemblerResult(t.it, <<>>, t.considered, <<t>>))
    IN /\ last.op = "new"
       /\ Created(create_new_block(best_block, last.res.it))
       /\ UNCHANGED <<db, best_block, fork_chain, orphaned_blocks_pool>>
       /\ UNCHANGED nodeVars

NextAssembler ==
    \/ FittingNext
    \/ CreateNewBlock

SpecAssembler == InitAssembler /\ [][NextAssembler]_vars

(***************************************************************************)
(* Reading a message.  The stream is the sequence of the bytes the peer    *)
(* sent: the 24 bytes of the header, then the payload.                     *)
(***************************************************************************)
\* u32, little endian
Le32(n) == <<n % 256, (n \div 256) % 256, (n \div 65536) % 256, (n \div 16777216) % 256>>
ReadLe32(b) == b[1] + 256 * b[2] + 65536 * b[3] + 16777216 * b[4]

\* The magics 24e92764 and f9beb4d8 and the commands, 12 bytes each, as
\* they are on the wire.
Magics == {<<36, 233, 39, 100>>, <<249, 190, 180, 216>>}
CommandBytes(name) ==
    IF name = "pong" THEN <<112, 111, 110, 103, 0, 0, 0, 0, 0, 0, 0, 0>>
    ELSE <<103, 101, 116, 97, 100, 100, 114, 0, 0, 0, 0, 0>>

\* The payload types read: their command, their version, the number of
\* bytes their fields take and the longest payload taken for them.
Payloads ==
    { [command |-> "pong", version |-> 0, fields |-> 8, max |-> 9],
      [command |-> "getaddr", version |-> 0, fields |-> 0, max |-> 1] }

\* crypto::checksum: four bytes computed from every byte of the data
checksum(data) ==
    [i \in 1..4 |-> (Sum([j \in 1..Len(data) |-> (i + j) * data[j]]) + 7 * i * (Len(data) + 1)) % 256]

MessageOk(value) == [err |-> "", value |-> <<value>>]
MessageErr(err) == [err |-> err, value |-> <<>>]

\* Serializable for MessageHeader
SerializeHeader(header) ==
    header.magic \o header.command \o Le32(header.len) \o header.checksum

\* the header taken whatever its magic
deserialize_any_magic(data, expected) ==
    IF Len(data) # 24 THEN MessageErr("Deserialize")
    ELSE MessageOk([magic |-> SubSeq(data, 1, 4), command |-> SubSeq(data, 5, 16),
                    len |-> ReadLe32(SubSeq(data, 17, 20)), checksum |-> SubSeq(data, 21, 24)])

\* MessageHeader::deserialize
deserialize(data, expected) ==
    IF Len(data) # 24 THEN MessageErr("Deserialize")
    ELSE IF expected # SubSeq(data, 1, 4) THEN MessageErr("InvalidMagic")
    ELSE MessageOk([magic |-> SubSeq(data, 1, 4), command |-> SubSeq(data, 5, 16),
                    len |-> ReadLe32(SubSeq(data, 17, 20)), checksum |-> SubSeq(data, 21, 24)])

\* deserialize_payload of a payload of plain fields: the version of the
\* payload type is checked, the fields are read and nothing may be left
deserialize_payload(M, data, version) ==
    IF M.version > version THEN MessageErr("InvalidVersion")
    ELSE IF Len(data) # M.fields THEN MessageErr("Deserialize")
    ELSE MessageOk(data)

\* read_payload: the payload of the declared length is read, its length and
\* its checksum are checked and it is deserialized
read_payload(M, stream, version, len, sum) ==
    IF len > M.max THEN MessageErr("Deserialize")
    ELSE IF Len(stream) < len THEN MessageErr("io::Error")
    ELSE IF checksum(SubSeq(stream, 1, len)) # sum THEN MessageErr("InvalidChecksum")
    ELSE deserialize_payload(M, SubSeq(stream, 1, len), version)

\* The streams: a header for a payload, with the right checksum or with
\* one of its bytes altered, and the payload or its first bytes only.
PayloadBytes ==
    { <<>>, <<1>>, <<88, 69, 48, 59, 109, 169, 119, 134>>, <<88, 69, 48, 59, 109, 169, 119, 135>>,
      <<88, 69, 48, 59, 109, 169, 119, 134, 0>>, <<88, 69, 48, 59, 109, 169, 119, 134, 0, 0>> }

Altered(sum, at) == [i \in 1..4 |-> IF i = at THEN (sum[i] + 16) % 256 ELSE sum[i]]

Streams ==
    { SerializeHeader([magic |-> magic, command |-> CommandBytes(M.command),
                       len |-> Len(payload), checksum |-> Altered(checksum(payload), at)])
          \o SubSeq(payload, 1, Len(payload) - cut)
      : magic \in Magics, M \in Payloads, payload \in PayloadBytes, at \in 0..4, cut \in 0..1 }

ReadResult(state, stream, header, result) ==
    [state |-> state, stream |-> stream, header |-> header, result |-> result]

InitReadMessage ==
    /\ db = EmptyDb
    /\ best_block = read_best_block(BaseKv(EmptyDb))
    /\ fork_chain = NoFork
    /\ orphaned_blocks_pool = {}
    /\ \E stream \in Streams, magic \in Magics, M \in Payloads :
           last = Call("read_message", [stream |-> stream, magic |-> magic, M |-> M, version |-> 0],
                       ReadResult("ReadHeader", stream, <<>>, <<>>))
    /\ NodeIdle

\* ReadMessage::poll in the state ReadHeader, the 24 bytes being there
PollReadHeader ==
    LET header == deserialize(SubSeq(last.res.stream, 1, 24), last.arg.magic)
        rest == SubSeq(last.res.stream, 25, Len(last.res.stream))
    IN /\ last.op = "read_message"
       /\ last.res.state = "ReadHeader"
       /\ last' = [last EXCEPT !.res =
                      IF header.err # "" THEN ReadResult("Ready", rest, <<>>, <<header>>)
                      ELSE IF header.value[1].command # CommandBytes(last.arg.M.command)
                      THEN ReadResult("Ready", rest, header.value, <<MessageErr("InvalidCommand")>>)
                      ELSE ReadResult("ReadPayload", rest, header.value, <<>>)]
       /\ UNCHANGED <<db, best_block, fork_chain, orphaned_blocks_pool>>
       /\ UNCHANGED nodeVars

\* ReadMessage::poll in the state ReadPayload
PollReadPayload ==
    LET header == last.res.header[1]
        payload == read_payload(last.arg.M, last.res.stream, last.arg.version,
                                header.len, header.checksum)
    IN /\ last.op = "read_message"
       /\ last.res.state = "ReadPayload"
       /\ last' = [last EXCEPT !.res = ReadResult("Ready", <<>>, last.res.header, <<payload>>)]
       /\ UNCHANGED <<db, best_block, fork_chain, orphaned_blocks_pool>>
       /\ UNCHANGED nodeVars

NextReadMessage ==
    \/ PollReadHeader
    \/ PollReadPayload

SpecReadMessage == InitReadMessage /\ [][NextReadMessage]_vars

(***************************************************************************)
(* Serialization of the version payload, of inventory vectors and of the   *)
(* JoinSplit of a transaction, byte by byte.  A reader answers with the    *)
(* value read and the bytes left, or with its error.                       *)
(***************************************************************************)
Read(value, rest) == [err |-> "", value |-> <<value>>, rest |-> rest]
ReadErr(err) == [err |-> err, value |-> <<>>, rest |-> <<>>]

Zeros(n) == [i \in 1..n |-> 0]
Le64(n) == Le32(n) \o Le32(0)
\* H256 of a catalogue hash; NetAddress (the model has one address)
H256Bytes(h) == <<h>> \o Zeros(31)
NetAddressLen == 26

\* Serializable for V0, V106, V70001
SerializeV0(v) ==
    Le32(v.version) \o Le64(v.services) \o Le64(v.timestamp) \o Zeros(NetAddressLen)
SerializeV106(v) ==
    Zeros(NetAddressLen) \o Le64(v.nonce) \o <<Len(v.user_agent)>> \o v.user_agent
        \o Le32(v.start_height)
SerializeV70001(v) == <<IF v.relay THEN 1 ELSE 0>>

\* Deserializable for V0, V106, V70001
DeserializeV0(b) ==
    IF Len(b) < 20 + NetAddressLen THEN ReadErr("UnexpectedEnd")
    ELSE Read([version |-> ReadLe32(SubSeq(b, 1, 4)), services |-> ReadLe32(SubSeq(b, 5, 8)),
               timestamp |-> ReadLe32(SubSeq(b, 13, 16))],
              SubSeq(b, 21 + NetAddressLen, Len(b)))
DeserializeV106(b) ==
    LET at == NetAddressLen + 9
    IN IF Len(b) < at \/ Len(b) < at + b[at] + 4 THEN ReadErr("UnexpectedEnd")
       ELSE Read([nonce |-> ReadLe32(SubSeq(b, NetAddressLen + 1, NetAddressLen + 4)),
                  user_agent |-> SubSeq(b, at + 1, at + b[at]),
                  start_height |-> ReadLe32(SubSeq(b, at + b[at] + 1, at + b[at] + 4))],
                 SubSeq(b, at + b[at] + 5, Len(b)))
DeserializeV70001(b) ==
    IF b = <<>> THEN ReadErr("UnexpectedEnd")
    ELSE Read([relay |-> b[1] # 0], Tail(b))

VersionPayload(variant, simple, v106, v70001) ==
    [kind |-> "Version", variant |-> variant, simple |-> simple, v106 |-> v106,
     v70001 |-> v70001]

\* Payload for Version: serialize_payload
Version_serialize_payload(self, version) ==
    CASE self.variant = "V0" -> SerializeV0(self.simple)
      [] self.variant = "V106" -> SerializeV0(self.simple) \o SerializeV106(self.v106[1])
      [] OTHER -> SerializeV0(self.simple) \o SerializeV106(self.v106[1])
                      \o SerializeV70001(self.v70001[1])

\* the sub-structures read by the version the peers agreed on
Version_deserialize_negotiated(b, version) ==
    LET simple == DeserializeV0(b)
        v106 == DeserializeV106(simple.rest)
        v70001 == DeserializeV70001(v106.rest)
    IN IF simple.err # "" THEN simple
       ELSE IF version < 106
       THEN Read(VersionPayload("V0", simple.value[1], <<>>, <<>>), simple.rest)
       ELSE IF v106.err # "" THEN v106
       ELSE IF version < 70001
       THEN Read(VersionPayload("V106", simple.value[1], v106.value, <<>>), v106.rest)
       ELSE IF v70001.err # "" THEN v70001
       ELSE Read(VersionPayload("V70001", simple.value[1], v106.value, v70001.value),
                 v70001.rest)

\* Payload for Version: deserialize_payload(reader, _version)
Version_deserialize_payload(b, version) ==
    LET simple == DeserializeV0(b)
        v106 == DeserializeV106(simple.rest)
        v70001 == DeserializeV70001(v106.rest)
    IN IF simple.err # "" THEN simple
       ELSE IF simple.value[1].version < 106
       THEN Read(VersionPayload("V0", simple.value[1], <<>>, <<>>), simple.rest)
       ELSE IF v106.err # "" THEN v106
       ELSE IF simple.value[1].version < 70001
       THEN Read(VersionPayload("V106", simple.value[1], v106.value, <<>>), v106.rest)
       ELSE IF v70001.err # "" THEN v70001
       ELSE Read(VersionPayload("V70001", simple.value[1], v106.value, v70001.value),
                 v70001.rest)

\* InventoryVector: Serializable, Deserializable (InventoryType::from_u32)
InventoryVector(inv_type, hash) == [kind |-> "InventoryVector", inv_type |-> inv_type, hash |-> hash]
SerializeInventoryVector(self) == Le32(self.inv_type) \o H256Bytes(self.hash)
DeserializeInventoryVector(b) ==
    IF Len(b) < 4 THEN ReadErr("UnexpectedEnd")
    ELSE IF ReadLe32(SubSeq(b, 1, 4)) \notin 0..3 THEN ReadErr("MalformedData")
    ELSE IF Len(b) < 36 THEN ReadErr("UnexpectedEnd")
    ELSE Read(InventoryVector(ReadLe32(SubSeq(b, 1, 4)), b[5]), SubSeq(b, 37, Len(b)))

\* The JoinSplit of a transaction, None or Some: a description takes
\* DescriptionLen bytes, pubkey and sig KeyLen bytes together.
DescriptionLen == 2
KeyLen == 3
OptionJoinSplit(join_split) == [kind |-> "JoinSplit", join_split |-> join_split]

RECURSIVE Concat(_)
Concat(q) == IF q = <<>> THEN <<>> ELSE Head(q) \o Concat(Tail(q))

\* serialize_join_split
serialize_join_split(self) ==
    LET join_split == self.join_split
    IN IF join_split = <<>> THEN <<0>>
       ELSE <<Len(join_split[1].descriptions)>>
                \o (IF join_split[1].descriptions # <<>>
                    THEN Concat(join_split[1].descriptions) \o join_split[1].pubkey_sig
                    ELSE <<>>)

\* deserialize_join_split
deserialize_join_split(b) ==
    LET len == b[1]
        end == 1 + len * DescriptionLen
    IN IF b = <<>> THEN ReadErr("UnexpectedEnd")
       ELSE IF len = 0 THEN Read(OptionJoinSplit(<<>>), Tail(b))
       ELSE IF Len(b) < end + KeyLen THEN ReadErr("UnexpectedEnd")
       ELSE Read(OptionJoinSplit(<<[descriptions |->
                                       [i \in 1..len |->
                                           SubSeq(b, 2 + (i - 1) * DescriptionLen,
                                                  1 + i * DescriptionLen)],
                                    pubkey_sig |-> SubSeq(b, end + 1, end + KeyLen)]>>),
                 SubSeq(b, end + KeyLen + 1, Len(b)))

serialize(x, version) ==
    CASE x.kind = "Version" -> Version_serialize_payload(x, version)
      [] x.kind = "InventoryVector" -> SerializeInventoryVector(x)
      [] OTHER -> serialize_join_split(x)

Deserialize(kind, b, version) ==
    CASE kind = "Version" -> Version_deserialize_payload(b, version)
      [] kind = "InventoryVector" -> DeserializeInventoryVector(b)
      [] OTHER -> deserialize_join_split(b)

\* The values serialized: every Version of three version fields, the
\* inventory vectors of two hashes, and the JoinSplits of up to two
\* descriptions.
WireVersions == {60, 106, 70001}
V0s == {[version |-> v, services |-> 1, timestamp |-> 77] : v \in WireVersions}
V106s == {[nonce |-> 7, user_agent |-> ua, start_height |-> 5] : ua \in {<<>>, <<47, 122, 47>>}}
V70001s == {[relay |-> r] : r \in BOOLEAN}

WireValues ==
    {VersionPayload("V0", s0, <<>>, <<>>) : s0 \in V0s}
    \cup {VersionPayload("V106", s0, <<s1>>, <<>>) : s0 \in V0s, s1 \in V106s}
    \cup {VersionPayload("V70001", s0, <<s1>>, <<s2>>) : s0 \in V0s, s1 \in V106s, s2 \in V70001s}
    \cup {InventoryVector(t, h) : t \in 0..3, h \in {A, B}}
    \cup {OptionJoinSplit(<<>>)}
    \cup {OptionJoinSplit(<<[descriptions |-> d, pubkey_sig |-> <<9, 8, 7>>]>>)
            : d \in {<<>>, <<<<1, 2>>>>, <<<<1, 2>>, <<3, 4>>>>}}

WireResult(bytes, read) == [bytes |-> bytes, read |-> read]

InitWire ==
    /\ db = EmptyDb
    /\ best_block = read_best_block(BaseKv(EmptyDb))
    /\ fork_chain = NoFork
    /\ orphaned_blocks_pool = {}
    /\ \E x \in WireValues, version \in {0} \cup WireVersions :
           last = Call("value", [x |-> x, version |-> version], WireResult(<<>>, <<>>))
    /\ NodeIdle

SerializeValue ==
    /\ last.op = "value"
    /\ last' = Call("serialize", last.arg,
                    WireResult(serialize(last.arg.x, last.arg.version), <<>>))
    /\ UNCHANGED <<db, best_block, fork_chain, orphaned_blocks_pool>>
    /\ UNCHANGED nodeVars

DeserializeBytes ==
    /\ last.op = "serialize"
    /\ last' = Call("deserialize", last.arg,
                    WireResult(last.res.bytes,
                               <<Deserialize(last.arg.x.kind, last.res.bytes, last.arg.version)>>))
    /\ UNCHANGED <<db, best_block, fork_chain, orphaned_blocks_pool>>
    /\ UNCHANGED nodeVars

NextWire ==
    \/ SerializeValue
    \/ DeserializeBytes

SpecWire == InitWire /\ [][NextWire]_vars

(***************************************************************************)
(* Signature hash of overwintered transactions (script/src/sign.rs)        *)
(***************************************************************************)

MaxInputs == 2

\* The version group ids as little-endian bytes: 0x892f2085 and 0x03c48270.
SAPLING_TX_VERSION_GROUP_ID == <<133, 32, 47, 137>>
OVERWINTER_TX_VERSION_GROUP_ID == <<112, 130, 196, 3>>

\* blake2b with a personalization: a hash is the pair of the personalization
\* and the hashed stream, so two hashes are equal iff both are.
blake2b_personal(personalization, data) == <<personalization, data>>

H256Default == <<"", <<>>>>

SighashCacheDefault ==
    [hash_prevouts |-> <<>>, hash_sequence |-> <<>>, hash_outputs |-> <<>>,
     hash_join_split |-> <<>>, hash_sapling_spends |-> <<>>, hash_sapling_outputs |-> <<>>]

\* Sighash::from_u32: bit 0x80 is anyone_can_pay, the low five bits the base.
Sighash_from_u32(u) ==
    [base |-> CASE u % 32 = 2 -> "None"
                [] u % 32 = 3 -> "Single"
                [] OTHER -> "All",
     anyone_can_pay |-> (u \div 128) % 2 = 1,
     fork_id |-> FALSE]

\* Option::unwrap_or_else
unwrap_or_else(option, computed) == IF option = <<>> THEN computed ELSE option[1]

Computed(hash, cache_it) == [hash |-> hash, cache_it |-> cache_it]

compute_hash_prevouts(cache, sighash, inputs) ==
    IF ~sighash.anyone_can_pay
    THEN Computed(unwrap_or_else(cache.hash_prevouts,
                      blake2b_personal("ZcashPrevoutHash",
                          [k \in DOMAIN inputs |-> inputs[k].previous_output])), TRUE)
    ELSE Computed(H256Default, FALSE)

compute_hash_sequence(cache, sighash, inputs) ==
    IF sighash.base = "All" /\ ~sighash.anyone_can_pay
    THEN Computed(unwrap_or_else(cache.hash_sequence,
                      blake2b_personal("ZcashSequencHash",
                          [k \in DOMAIN inputs |-> inputs[k].sequence])), TRUE)
    ELSE Computed(H256Default, FALSE)

\* The variant that also keeps the hash of the single output.
compute_hash_outputs_caching_single(cache, sighash, input_index, outputs) ==
    IF sighash.base = "All"
    THEN Computed(unwrap_or_else(cache.hash_outputs,
                      blake2b_personal("ZcashOutputsHash", outputs)), TRUE)
    ELSE IF sighash.base = "Single" /\ input_index # <<>> /\ input_index[1] <= Len(outputs)
    THEN Computed(blake2b_personal("ZcashOutputsHash", <<outputs[input_index[1]]>>), TRUE)
    ELSE Computed(H256Default, FALSE)

compute_hash_outputs(cache, sighash, input_index, outputs) ==
    IF sighash.base = "All"
    THEN Computed(unwrap_or_else(cache.hash_outputs,
                      blake2b_personal("ZcashOutputsHash", outputs)), TRUE)
    ELSE IF sighash.base = "Single" /\ input_index # <<>> /\ input_index[1] <= Len(outputs)
    THEN Computed(blake2b_personal("ZcashOutputsHash", <<outputs[input_index[1]]>>), FALSE)
    ELSE Computed(H256Default, FALSE)

compute_hash_join_split(cache, join_split) ==
    IF join_split # <<>> /\ join_split[1].descriptions # <<>>
    THEN Computed(unwrap_or_else(cache.hash_join_split,
                      blake2b_personal("ZcashJSplitsHash",
                          join_split[1].descriptions \o <<join_split[1].pubkey>>)), TRUE)
    ELSE Computed(H256Default, FALSE)

compute_hash_sapling_spends(cache, is_sapling, sapling) ==
    IF ~is_sapling
    THEN Computed(H256Default, FALSE)
    ELSE IF sapling # <<>> /\ sapling[1].spends # <<>>
    THEN Computed(unwrap_or_else(cache.hash_sapling_spends,
                      blake2b_personal("ZcashSSpendsHash", sapling[1].spends)), TRUE)
    ELSE Computed(H256Default, FALSE)

compute_hash_sapling_outputs(cache, is_sapling, sapling) ==
    IF ~is_sapling
    THEN Computed(H256Default, FALSE)
    ELSE IF sapling # <<>> /\ sapling[1].outputs # <<>>
    THEN Computed(unwrap_or_else(cache.hash_sapling_outputs,
                      blake2b_personal("ZcashSOutputHash", sapling[1].outputs)), TRUE)
    ELSE Computed(H256Default, FALSE)

\* `if cache_hash_x { cache.hash_x = Some(hash_x) }`
Cached(old, computed) == IF computed.cache_it THEN <<computed.hash>> ELSE old

\* The hash of the signed stream and the cache the call leaves behind.
\* input_index is <<>> (None) or <<i>>, with i an input of the transaction.
signature_hash_post_overwinter(self, cache, input_index, input_amount, script_pubkey, sighashtype, sighash, consensus_branch_id, sapling) ==
    LET hash_prevouts == compute_hash_prevouts(cache, sighash, self.inputs)
        hash_sequence == compute_hash_sequence(cache, sighash, self.inputs)
        hash_outputs == compute_hash_outputs(cache, sighash, input_index, self.outputs)
        hash_join_split == compute_hash_join_split(cache, self.join_split)
        hash_sapling_spends == compute_hash_sapling_spends(cache, sapling, self.sapling)
        hash_sapling_outputs == compute_hash_sapling_outputs(cache, sapling, self.sapling)
        stream ==
            <<<<self.version, self.overwintered>>, self.version_group_id,
              hash_prevouts.hash, hash_sequence.hash, hash_outputs.hash, hash_join_split.hash>>
            \o (IF sapling THEN <<hash_sapling_spends.hash, hash_sapling_outputs.hash>> ELSE <<>>)
            \o <<self.lock_time, self.expiry_height>>
            \o (IF sapling /\ self.sapling # <<>>
                THEN <<self.sapling[1].balancing_value>> ELSE <<>>)
            \o <<sighashtype>>
            \o (IF input_index # <<>>
                THEN <<self.inputs[input_index[1]].previous_output, script_pubkey,
                       input_amount, self.inputs[input_index[1]].sequence>>
                ELSE <<>>)
    IN [hash |-> blake2b_personal(<<"ZcashSigHash", consensus_branch_id>>, stream),
        cache |-> [hash_prevouts |-> Cached(cache.hash_prevouts, hash_prevouts),
                   hash_sequence |-> Cached(cache.hash_sequence, hash_sequence),
                   hash_outputs |-> Cached(cache.hash_outputs, hash_outputs),
                   hash_join_split |-> Cached(cache.hash_join_split, hash_join_split),
                   hash_sapling_spends |-> Cached(cache.hash_sapling_spends, hash_sapling_spends),
                   hash_sapling_outputs |->
                       Cached(cache.hash_sapling_outputs, hash_sapling_outputs)]]

signature_version(self) ==
    IF self.overwintered
    THEN IF self.version_group_id = SAPLING_TX_VERSION_GROUP_ID THEN "Sapling" ELSE "Overwinter"
    ELSE "Sprout"

\* The overwintered arm of signature_hash; the signers drawn are overwintered.
signature_hash(self, cache, input_index, input_amount, script_pubkey, sighashtype, consensus_branch_id) ==
    signature_hash_post_overwinter(self, cache, input_index, input_amount, script_pubkey,
                                   sighashtype, Sighash_from_u32(sighashtype),
                                   consensus_branch_id, signature_version(self) = "Sapling")

SigHashTypes == {1, 2, 3, 129, 130, 131}

SignerInputs == [k \in 1..MaxInputs |-> [previous_output |-> 10 + k, sequence |-> k % 2]]

TransactionInputSigners ==
    {[overwintered |-> TRUE, version |-> 4, version_group_id |-> group,
      inputs |-> SignerInputs, outputs |-> outputs, lock_time |-> 0, expiry_height |-> 9,
      join_split |-> join_split, sapling |-> sapling] :
        group \in {SAPLING_TX_VERSION_GROUP_ID, OVERWINTER_TX_VERSION_GROUP_ID},
        outputs \in {<<>>, <<50>>, <<50, 60>>},
        join_split \in {<<>>, <<[descriptions |-> <<>>, pubkey |-> 9]>>,
                        <<[descriptions |-> <<71>>, pubkey |-> 9]>>},
        sapling \in {<<>>, <<[spends |-> <<>>, outputs |-> <<>>, balancing_value |-> 0]>>,
                     <<[spends |-> <<81>>, outputs |-> <<91>>, balancing_value |-> 3]>>}}

InputIndexes == {<<>>} \cup {<<k>> : k \in 1..MaxInputs}

\* A checker: the signer and its cache, before any signature was computed.
InitSighash ==
    /\ db = EmptyDb
    /\ best_block = read_best_block(BaseKv(EmptyDb))
    /\ fork_chain = NoFork
    /\ orphaned_blocks_pool = {}
    /\ \E signer \in TransactionInputSigners, first \in InputIndexes, second \in InputIndexes,
          first_type \in SigHashTypes, second_type \in SigHashTypes :
           last = Call("checker",
                       [signer |-> signer, first |-> first, second |-> second,
                        first_type |-> first_type, second_type |-> second_type],
                       [hash |-> H256Default, cache |-> SighashCacheDefault])
    /\ NodeIdle

\* The first signature computed with the checker fills the cache.
FillCache ==
    /\ last.op = "checker"
    /\ last' = Call("fill", last.arg,
                    signature_hash(last.arg.signer, last.res.cache, last.arg.first, 0, <<>>,
                                   last.arg.first_type, 7))
    /\ UNCHANGED <<db, best_block, fork_chain, orphaned_blocks_pool>>
    /\ UNCHANGED nodeVars

\* A later signature of the same transaction uses the cached portions.
CheckInput ==
    /\ last.op = "fill"
    /\ last' = Call("check", last.arg,
                    signature_hash(last.arg.signer, last.res.cache, last.arg.second, 5, <<118>>,
                                   last.arg.second_type, 7))
    /\ UNCHANGED <<db, best_block, fork_chain, orphaned_blocks_pool>>
    /\ UNCHANGED nodeVars

NextSighash ==
    \/ FillCache
    \/ CheckInput

SpecSighash == InitSighash /\ [][NextSighash]_vars

(***************************************************************************)
(* ChainAcceptor::check_transactions on the parallel iterator.  The        *)
(* indexed transactions are split into contiguous segments, each segment   *)
(* is folded in order from Ok(()), and adjacent finished segments are      *)
(* reduced, left before right; segments are split, folded and reduced in   *)
(* any order.  A segment is the indices lo..hi, the index to fold next,    *)
(* and its result so far; first is the index that was folded first.        *)
(***************************************************************************)
MaxBlockTransactions == 4

\* Error::Transaction(index, err) and Ok(()), as one shape
TransactionResult(index, e) == [err |-> e.err, index |-> index, error |-> e]
TransactionsOk == TransactionResult(0, TxOk)

\* result.and_then(|_| tx.check().map_err(|err| Error::Transaction(index, err)))
fold_op(s, arg, result, index) ==
    LET map_err(checked) ==
            IF checked.err = "Ok" THEN TransactionsOk ELSE TransactionResult(index - 1, checked)
    IN IF result.err # "Ok" THEN result
       ELSE map_err(TransactionAcceptor(s, [block |-> [k \in DOMAIN arg.block |->
                                                           arg.block[k].hash],
                                            transaction_index |-> index - 1,
                                            height |-> arg.height, level |-> arg.level],
                                        arg.block[index]))

\* The reduction that keeps the error of the right segment.
reduce_op_right(acc, check) == IF check.err = "Ok" THEN acc ELSE check

\* acc.and(check)
reduce_op(acc, check) == IF acc.err = "Ok" THEN check ELSE acc

Segment(lo, hi, at, result) == [lo |-> lo, hi |-> hi, at |-> at, result |-> result]

Replace(segments, from, to, new) ==
    SubSeq(segments, 1, from - 1) \o new \o SubSeq(segments, to + 1, Len(segments))

ParBlocks ==
    LET hashes == <<18, 21, 22, 24, 23, 25>>
        Shaped(h, shape) ==
            Candidate(h, IF shape = "size" THEN MaxTransactionSize + 1 ELSE MaxTransactionSize,
                      MaxBlockSigops, shape = "script")
    IN UNION {{[k \in 1..n |-> Shaped(hashes[k], shapes[k])] :
                  shapes \in [1..n -> {"fine", "size", "script"}]} :
              n \in {MaxBlockTransactions - 1, MaxBlockTransactions}}

InitParIter ==
    LET Built(r) ==
            /\ db = r.store.kv.base
            /\ best_block = r.store.best
    IN /\ Built(InsertAndCanonize(open(BaseKv(EmptyDb)), ChainTo(G)))
       /\ \E block \in ParBlocks, height \in {2, 102} :
              last = Call("par_iter", [block |-> block, height |-> height, level |-> "Full"],
                          [segments |-> <<Segment(1, Len(block), 1, TransactionsOk)>>,
                           first |-> 0])
       /\ fork_chain = NoFork
       /\ orphaned_blocks_pool = {}
       /\ NodeIdle

\* The iterator splits a segment that no thread has begun to fold.
SplitSegment(k, mid) ==
    LET seg == last.res.segments[k]
    IN /\ seg.at = seg.lo
       /\ seg.lo <= mid /\ mid < seg.hi
       /\ last' = Call("split", last.arg,
                       [segments |-> Replace(last.res.segments, k, k,
                                             <<Segment(seg.lo, mid, seg.lo, TransactionsOk),
                                               Segment(mid + 1, seg.hi, mid + 1, TransactionsOk)>>),
                        first |-> last.res.first])
       /\ UNCHANGED <<db, best_block, fork_chain, orphaned_blocks_pool>>
       /\ UNCHANGED nodeVars

\* A thread folds the next transaction of its segment.
FoldSegment(k) ==
    LET seg == last.res.segments[k]
    IN /\ seg.at <= seg.hi
       /\ last' = Call("fold", last.arg,
                       [segments |-> Replace(last.res.segments, k, k,
                                             <<Segment(seg.lo, seg.hi, seg.at + 1,
                                                       fold_op(CurrentStore, last.arg,
                                                               seg.result, seg.at))>>),
                        first |-> IF last.res.first = 0 THEN seg.at ELSE last.res.first])
       /\ UNCHANGED <<db, best_block, fork_chain, orphaned_blocks_pool>>
       /\ UNCHANGED nodeVars

\* Two adjacent folded segments are reduced into one.
ReduceSegments(k) ==
    LET left == last.res.segments[k]
        right == last.res.segments[k + 1]
    IN /\ left.at > left.hi /\ right.at > right.hi
       /\ last' = Call("reduce", last.arg,
                       [segments |-> Replace(last.res.segments, k, k + 1,
                                             <<Segment(left.lo, right.hi, right.at,
                                                       reduce_op(left.result, right.result))>>),
                        first |-> last.res.first])
       /\ UNCHANGED <<db, best_block, fork_chain, orphaned_blocks_pool>>
       /\ UNCHANGED nodeVars

NextParIter ==
    \/ \E k \in DOMAIN last.res.segments, mid \in 1..MaxBlockTransactions : SplitSegment(k, mid)
    \/ \E k \in DOMAIN last.res.segments : FoldSegment(k)
    \/ \E k \in 1..(Len(last.res.segments) - 1) : ReduceSegments(k)

SpecParIter == InitParIter /\ [][NextParIter]_vars

\* check_transactions has returned: one segment is left and it is folded.
ParIterDone ==
    /\ Len(last.res.segments) = 1
    /\ last.res.segments[1].at > last.res.segments[1].hi

(***************************************************************************)
(* Threads on one BlockChainDatabase.  best_block is a RwLock: canonize    *)
(* and decanonize hold its write guard from their first line to their      *)
(* return, best_block() and block_origin hold a read guard; insert and the *)
(* lookups of the database take no guard.  Each db.write is one batch.     *)
(* A thread is the call it is in, its position, the batch or the best      *)
(* block it has computed, and the calls it has made.                       *)
(***************************************************************************)
MaxCalls == 2

Threads == {1, 2}

ThreadBlocks == {A, B}

Thread(op, hash, pc, ops, new_best, calls) ==
    [op |-> op, hash |-> hash, pc |-> pc, ops |-> ops, new_best |-> new_best, calls |-> calls]

Returned(thread) == Thread("", ZERO, "idle", <<>>, DefaultBest, thread.calls + 1)

\* lock: the thread holding the write guard (0: none) and the readers
\* holding a read guard; seen: what the reader read under its guard.
Threading(threads, lock, readers, seen) ==
    [threads |-> threads, lock |-> lock, readers |-> readers, seen |-> seen]

Seen(best, hash, meta) == [best |-> best, hash |-> hash, meta |-> meta]

InitThreads ==
    LET Built(r) ==
            /\ db = r.store.kv.base
            /\ best_block = r.store.best
    IN /\ Built(InsertAndCanonize(open(BaseKv(EmptyDb)), ChainTo(G)))
       /\ last = Call("open", <<>>,
                      Threading([t \in Threads |-> Thread("", ZERO, "idle", <<>>, DefaultBest, 0)],
                                0, 0, <<>>))
       /\ fork_chain = NoFork
       /\ orphaned_blocks_pool = {}
       /\ NodeIdle

ThreadStep(op, t, thread, lock) ==
    last' = Call(op, <<>>, Threading([last.res.threads EXCEPT ![t] = thread], lock,
                                     last.res.readers, last.res.seen))

\* insert, from its first line to the batch it has built (326-410)
InsertRead(t, hash) ==
    LET thread == last.res.threads[t]
        s == CurrentStore
        parent_hash == Block(hash).header.previous_header_hash
    IN /\ thread.pc = "idle" /\ thread.calls < MaxCalls
       /\ IF \/ contains_block(s, hash)
             \/ ~contains_block(s, parent_hash) /\ parent_hash # ZERO
             \/ parent_hash # ZERO /\ ~HasParentTrees(s, parent_hash)
          THEN ThreadStep("insert", t, Returned(thread), last.res.lock)
          ELSE ThreadStep("insert", t,
                          Thread("insert", hash, "read", InsertBatch(s, Block(hash)),
                                 DefaultBest, thread.calls),
                          last.res.lock)
       /\ UNCHANGED <<db, best_block, fork_chain, orphaned_blocks_pool>>
       /\ UNCHANGED nodeVars

\* insert: self.db.write(update) (411)
InsertWrite(t, fail) ==
    LET thread == last.res.threads[t]
    IN /\ thread.op = "insert" /\ thread.pc = "read"
       /\ db' = kv_write(BaseKv(db), thread.ops, fail).kv.base
       /\ ThreadStep("insert", t, Returned(thread), last.res.lock)
       /\ UNCHANGED <<best_block, fork_chain, orphaned_blocks_pool>>
       /\ UNCHANGED nodeVars

\* let mut best_block = self.best_block.write() (441, 566)
WriteLock(t, op, hash) ==
    LET thread == last.res.threads[t]
    IN /\ thread.pc = "idle" /\ thread.calls < MaxCalls
       /\ last.res.lock = 0 /\ last.res.readers = 0
       /\ ThreadStep(op, t, Thread(op, hash, "locked", <<>>, DefaultBest, thread.calls), t)
       /\ UNCHANGED <<db, best_block, fork_chain, orphaned_blocks_pool>>
       /\ UNCHANGED nodeVars

\* canonize and decanonize assigning the best block before the batch is
\* written, so that it stays assigned when the write fails.
LockedWriteBestFirst(t, fail) ==
    LET thread == last.res.threads[t]
        Written(r, best) ==
            IF r.res # OK
            THEN /\ ThreadStep(thread.op, t, Returned(thread), 0)
                 /\ db' = db
                 /\ best_block' = best
            ELSE /\ ThreadStep(thread.op, t,
                               Thread(thread.op, thread.hash, "written", <<>>, r.store.best,
                                      thread.calls), t)
                 /\ db' = r.store.kv.base
                 /\ best_block' = best
    IN /\ thread.pc = "locked"
       /\ IF thread.op = "canonize"
          THEN Written(canonize(CurrentStore, thread.hash, fail),
                       canonize(CurrentStore, thread.hash, FALSE).store.best)
          ELSE Written(decanonize(CurrentStore, fail),
                       decanonize(CurrentStore, FALSE).store.best)
       /\ UNCHANGED <<fork_chain, orphaned_blocks_pool>>
       /\ UNCHANGED nodeVars

\* canonize and decanonize under the guard, up to the write of the batch
\* (442-561, 567-665); an error returns and drops the guard.
LockedWrite(t, fail) ==
    LET thread == last.res.threads[t]
        Written(r) ==
            IF r.res # OK
            THEN /\ ThreadStep(thread.op, t, Returned(thread), 0)
                 /\ db' = db
            ELSE /\ ThreadStep(thread.op, t,
                               Thread(thread.op, thread.hash, "written", <<>>, r.store.best,
                                      thread.calls), t)
                 /\ db' = r.store.kv.base
    IN /\ thread.pc = "locked"
       /\ IF thread.op = "canonize"
          THEN Written(canonize(CurrentStore, thread.hash, fail))
          ELSE Written(decanonize(CurrentStore, fail))
       /\ UNCHANGED <<best_block, fork_chain, orphaned_blocks_pool>>
       /\ UNCHANGED nodeVars

\* *best_block = new_best_block; Ok(..) (562-563, 666-667)
SetBest(t) ==
    LET thread == last.res.threads[t]
    IN /\ thread.pc = "written"
       /\ best_block' = thread.new_best
       /\ ThreadStep(thread.op, t, Returned(thread), 0)
       /\ UNCHANGED <<db, fork_chain, orphaned_blocks_pool>>
       /\ UNCHANGED nodeVars

\* A reader takes the read guard, as block_origin does (270).
ReadLock ==
    /\ last.res.lock = 0 /\ last.res.readers = 0
    /\ last' = Call("read", <<>>, Threading(last.res.threads, 0, 1, <<>>))
    /\ UNCHANGED <<db, best_block, fork_chain, orphaned_blocks_pool>>
    /\ UNCHANGED nodeVars

\* Under the guard it reads the best block, the hash at its number and
\* whether every transaction of the best block has its meta.
ReadStore ==
    LET s == CurrentStore
        hash == IF has_block_hash(s, s.best.number)
                THEN <<block_hash(s, s.best.number)>> ELSE <<>>
    IN /\ last.res.readers = 1 /\ last.res.seen = <<>>
       /\ last' = Call("read", <<>>,
                       Threading(last.res.threads, 0, 1,
                                 <<Seen(s.best, hash,
                                        \A h \in Range(block_transaction_hashes(s, s.best.hash)) :
                                            has_transaction_meta(s, h))>>))
       /\ UNCHANGED <<db, best_block, fork_chain, orphaned_blocks_pool>>
       /\ UNCHANGED nodeVars

ReadUnlock ==
    /\ last.res.readers = 1 /\ last.res.seen # <<>>
    /\ last' = Call("read", <<>>, Threading(last.res.threads, 0, 0, <<>>))
    /\ UNCHANGED <<db, best_block, fork_chain, orphaned_blocks_pool>>
    /\ UNCHANGED nodeVars

NextThreads ==
    \/ \E t \in Threads, hash \in ThreadBlocks : InsertRead(t, hash)
    \/ \E t \in Threads, fail \in BOOLEAN : InsertWrite(t, fail)
    \/ \E t \in Threads, hash \in ThreadBlocks : WriteLock(t, "canonize", hash)
    \/ \E t \in Threads : WriteLock(t, "decanonize", ZERO)
    \/ \E t \in Threads, fail \in BOOLEAN : LockedWrite(t, fail)
    \/ \E t \in Threads : SetBest(t)
    \/ ReadLock
    \/ ReadStore
    \/ ReadUnlock

SpecThreads == InitThreads /\ [][NextThreads]_vars

\* The thread is between the first read and the last write of its call.
InSection(t) == last.res.threads[t].pc \in {"read", "locked", "written"}

(***************************************************************************)
(* Value conservation: TransactionOverspent::check and                     *)
(* checked_transaction_fee on transactions whose values reach the end of   *)
(* the unsigned range.                                                     *)
(***************************************************************************)
\* Transactions whose prevouts are all in the store built from G and A.
ValueCandidates ==
    [inputs : {<<OutPoint(11, 0)>>, <<OutPoint(11, 0), OutPoint(12, 0)>>,
               <<OutPoint(11, 0), OutPoint(12, 0), OutPoint(21, 0), OutPoint(11, 0)>>,
               <<OutPoint(11, 0), OutPoint(12, 0), OutPoint(21, 0), OutPoint(11, 0),
                 OutPoint(21, 0)>>},
     outputs : {<<1>>, <<3>>, <<6, 3>>},
     descriptions : {<<>>, <<JoinSplit(2, 1)>>, <<JoinSplit(U64_MAX, 0)>>,
                     <<JoinSplit(0, U64_MAX)>>},
     balancing_value : {0, 3, 0 - 3}]

InitValues ==
    LET Built(r) ==
            /\ db = r.store.kv.base
            /\ best_block = r.store.best
    IN /\ Built(InsertAndCanonize(open(BaseKv(EmptyDb)), ChainTo(A)))
       /\ last = Call("init_test_chain",
                      [tx |-> [inputs |-> <<>>, outputs |-> <<>>, descriptions |-> <<>>,
                               balancing_value |-> 0],
                       overflow_checks |-> FALSE], TxOk)
       /\ fork_chain = NoFork
       /\ orphaned_blocks_pool = {}
       /\ NodeIdle

\* The acceptor's check of a transparent transaction.
OverspentCheck(tx, overflow_checks) ==
    /\ tx.descriptions = <<>> /\ tx.balancing_value = 0
    /\ last' = Call("TransactionOverspent", [tx |-> tx, overflow_checks |-> overflow_checks],
                    TransactionOverspent_check(CurrentStore, <<>>, tx.inputs, Sum(tx.outputs),
                                               overflow_checks))
    /\ UNCHANGED <<db, best_block, fork_chain, orphaned_blocks_pool>>
    /\ UNCHANGED nodeVars

TransactionFee(tx) ==
    /\ last' = Call("checked_transaction_fee", [tx |-> tx, overflow_checks |-> FALSE],
                    checked_transaction_fee(CurrentStore, 0, tx))
    /\ UNCHANGED <<db, best_block, fork_chain, orphaned_blocks_pool>>
    /\ UNCHANGED nodeVars

NextValues ==
    \/ \E tx \in ValueCandidates, overflow_checks \in BOOLEAN : OverspentCheck(tx, overflow_checks)
    \/ \E tx \in ValueCandidates : TransactionFee(tx)

SpecValues == InitValues /\ [][NextValues]_vars

(***************************************************************************)
(* SizePolicy on its own: a policy is asked to decide on one size after    *)
(* another, and every size it appends is applied.  One policy is the one   *)
(* of test_size_policy and is given the sizes of that test; the others are *)
(* given any sizes.  finish_limit is 3 in the test and 50 in the           *)
(* assembler: the policies drawn have a limit of 2 or more.                *)
(***************************************************************************)
MaxDecides == 6
MaxFinishLimit == 3

TestSizes == <<100, 500, 600, 200, 300, 300, 1, 1, 1000, 1, 1000>>

PolicySizes == {1, 2, 3, 7}

\* finishing_calls: the decide calls made so far while current_size +
\* size_buffer > max_size; before: the policy the last call was made on.
PolicyCall(before, size, decision, calls, finishing_calls, test) ==
    [before |-> before, size |-> size, policy |-> decision.policy, step |-> decision.step,
     calls |-> calls, finishing_calls |-> finishing_calls, test |-> test]

InitSizePolicy ==
    /\ db = EmptyDb
    /\ best_block = read_best_block(BaseKv(EmptyDb))
    /\ fork_chain = NoFork
    /\ orphaned_blocks_pool = {}
    /\ \E policy \in {SizePolicy(0, 1000, 200, 3)}
                     \cup {SizePolicy(current_size, 6, size_buffer, finish_limit) :
                              current_size \in {0, 1}, size_buffer \in {0, 2},
                              finish_limit \in 2..MaxFinishLimit} :
           last = Call("new", <<>>,
                       PolicyCall(policy, 0, [policy |-> policy, step |-> "Append"], 0, 0,
                               policy.max_size = 1000))
    /\ NodeIdle

\* decide(size), and apply(size) when the decision appends
Decide(size) ==
    LET self == last.res.policy
        Applied(decision) ==
            IF decision.step \in {"Append", "FinishAndAppend"}
            THEN [decision EXCEPT !.policy = apply(decision.policy, size)]
            ELSE decision
    IN /\ IF last.res.test
          THEN last.res.calls < Len(TestSizes) /\ size = TestSizes[last.res.calls + 1]
          ELSE last.res.calls < MaxDecides /\ size \in PolicySizes
       /\ last' = Call("decide", <<>>,
                       PolicyCall(self, size, Applied(decide(self, size)), last.res.calls + 1,
                               last.res.finishing_calls
                               + (IF self.current_size + self.size_buffer > self.max_size
                                  THEN 1 ELSE 0),
                               last.res.test))
       /\ UNCHANGED <<db, best_block, fork_chain, orphaned_blocks_pool>>
       /\ UNCHANGED nodeVars

NextSizePolicy == \E size \in PolicySizes \cup Range(TestSizes) : Decide(size)

SpecSizePolicy == InitSizePolicy /\ [][NextSizePolicy]_vars

(***************************************************************************)
(* The blocks writer given the block A and its two children in any order.  *)
(***************************************************************************)
SiblingBlocks == {A, B, 5, 7}

NextSiblings == \E b \in SiblingBlocks, fail_at \in 0..MaxFailAt :
        AppendBlock(b, fail_at) /\ UNCHANGED nodeVars

SpecSiblings == InitWriter /\ [][NextSiblings]_vars

(***************************************************************************)
(* Properties of the transaction acceptor                                  *)
(***************************************************************************)
\* C14: the double-spend check of the acceptor rejects a transaction one of
\* whose prevouts is marked spent in the transaction meta, with
\* UsingSpentOutput(hash, index) of such a prevout, and rejects a
\* transaction that reveals a JoinSplit or Sapling nullifier the store
\* already holds under the same epoch; it passes a transaction only if
\* neither is the case.
C14_DoubleSpendRejects ==
    LET Checked(s, arg) ==
            LET inputs == TxCat(arg.tx.hash).inputs
                spent == {j \in DOMAIN inputs : is_spent(s, inputs[j])}
                revealed ==
                    \E epoch \in Epochs :
                        \E i \in DOMAIN Revealed(arg.tx.hash, epoch) :
                            contains_nullifier(s, epoch, Revealed(arg.tx.hash, epoch)[i])
                Decided(d) ==
                    /\ spent # {} =>
                           /\ d.err = "UsingSpentOutput"
                           /\ \E j \in spent : d.a = inputs[j].hash /\ d.b = inputs[j].index
                    /\ revealed => d # TxOk
                    /\ d = TxOk => spent = {} /\ ~revealed
            IN Decided(TransactionDoubleSpend(s, arg.ctx, arg.tx))
    IN last.op \in {"TransactionAcceptor", "MemoryPoolTransactionAcceptor"} =>
           Checked(CurrentStore, last.arg)

\* C15: the acceptor returns the error of the first failing check in the
\* order Size, BIP-30, Missing inputs, Maturity, Value conservation,
\* Double-spend, Sigops (memory pool only), Script evaluation, and Ok when
\* none fails; the memory pool follows the same order without Size and
\* BIP-30.
C15_FixedOrder ==
    LET FirstError(results) ==
            IF \A i \in DOMAIN results : results[i] = TxOk THEN TxOk
            ELSE results[CHOOSE i \in DOMAIN results :
                             /\ results[i] # TxOk
                             /\ \A k \in 1..(i - 1) : results[k] = TxOk]
        Ordered(s, ctx, tx) ==
            IF last.op = "TransactionAcceptor"
            THEN last.res = FirstError(<<TransactionSize(s, ctx, tx),
                                         TransactionBip30(s, ctx, tx),
                                         TransactionMissingInputs(s, ctx, tx),
                                         TransactionMaturity(s, ctx, tx),
                                         TransactionOverspent(s, ctx, tx),
                                         TransactionDoubleSpend(s, ctx, tx),
                                         TransactionEval(s, ctx, tx)>>)
            ELSE last.res = FirstError(<<TransactionMissingInputs(s, ctx, tx),
                                         TransactionMaturity(s, ctx, tx),
                                         TransactionOverspent(s, ctx, tx),
                                         TransactionDoubleSpend(s, ctx, tx),
                                         TransactionSigops(s, ctx, tx),
                                         TransactionEval(s, ctx, tx)>>)
    IN last.op \in {"TransactionAcceptor", "MemoryPoolTransactionAcceptor"} =>
           Ordered(CurrentStore, last.arg.ctx, last.arg.tx)

\* C16: in a block, a transaction whose hash is that of a transaction of
\* the canonical chain with an output no later canonical transaction spends
\* is rejected with UnspentTransactionWithTheSameHash (unless its size
\* already rejected it), whatever the pending block spends; it is not
\* rejected so when no canonical block lists the hash or every listed copy
\* is fully spent; the memory pool never returns this error.
C16_Bip30UnspentDuplicate ==
    LET HasUnspent(s, h) ==
            \E n \in 0..s.best.number :
                /\ has_block_hash(s, n)
                /\ h \in Range(block_transaction_hashes(s, block_hash(s, n)))
                /\ \E i \in 0..(TxCat(h).outputs - 1) :
                       \A m \in n..s.best.number :
                           \A t \in Range(block_transaction_hashes(s, block_hash(s, m))) :
                               OutPoint(h, i) \notin Range(TxCat(t).inputs)
        InBlock(s, ctx, tx) ==
            IF tx.size > MaxTransactionSize THEN last.res.err = "MaxSize"
            ELSE IF HasUnspent(s, tx.hash)
            THEN last.res.err = "UnspentTransactionWithTheSameHash"
            ELSE last.res.err # "UnspentTransactionWithTheSameHash"
    IN /\ last.op = "TransactionAcceptor" =>
              InBlock(CurrentStore, last.arg.ctx, last.arg.tx)
       /\ last.op = "MemoryPoolTransactionAcceptor" =>
              last.res.err # "UnspentTransactionWithTheSameHash"

\* The coinbase 11 of G is canonical and unspent, and the pending block
\* <<11, 24>> repeats it and then spends its output: rejected.
C16_DuplicateSpentInBlock ==
    /\ last.op = "TransactionAcceptor"
    /\ best_block = BestBlock(G, 0)
    /\ last.arg.ctx.block = <<11, 24>>
    /\ last.arg.ctx.transaction_index = 0
    /\ last.res.err = "UnspentTransactionWithTheSameHash"

\* C17: the maturity check of a transaction verified for height h fails
\* with Maturity exactly when one of its inputs spends an output of a
\* coinbase included at a height c with h < c + 100: a canonical coinbase
\* (c is the height of its meta) or the coinbase of the very block being
\* verified (c = h).
C17_CoinbaseMaturity ==
    LET Immature(s, ctx, tx) ==
            \E j \in DOMAIN TxCat(tx.hash).inputs :
                LET prev == TxCat(tx.hash).inputs[j].hash
                IN \/ /\ has_transaction_meta(s, prev)
                      /\ transaction_meta(s, prev).coinbase
                      /\ ctx.height < transaction_meta(s, prev).height + COINBASE_MATURITY
                   \/ /\ ~has_transaction_meta(s, prev)
                      /\ ctx.transaction_index >= 1
                      /\ ctx.block[1] = prev
                      /\ TxCat(prev).inputs = <<>>
        Checked(s, ctx, tx) ==
            (TransactionMaturity(s, ctx, tx) = TxError("Maturity", 0, 0))
                <=> Immature(s, ctx, tx)
    IN last.op \in {"TransactionAcceptor", "MemoryPoolTransactionAcceptor"} =>
           Checked(CurrentStore, last.arg.ctx, last.arg.tx)

\* C18: checked_transaction_fee returns Ok(inputs - outputs) when every
\* prevout resolves in the store, no accumulator overflows and the inputs
\* cover the outputs; it returns Overspend when some prevout does not
\* resolve and when, without overflow, the outputs exceed the inputs.
C18_FeeOrOverspend ==
    LET Settled(s, tx) ==
            LET resolves == \A j \in DOMAIN tx.inputs : transaction_output(s, tx.inputs[j])
                incoming ==
                    Sum([j \in DOMAIN tx.inputs |->
                            TxOutputValue(tx.inputs[j].hash, tx.inputs[j].index)])
                    + Sum([i \in DOMAIN tx.descriptions |-> tx.descriptions[i].value_pub_new])
                    + (IF tx.balancing_value > 0 THEN tx.balancing_value ELSE 0)
                spends ==
                    Sum(tx.outputs)
                    + Sum([i \in DOMAIN tx.descriptions |-> tx.descriptions[i].value_pub_old])
                    + (IF tx.balancing_value < 0 THEN 0 - tx.balancing_value ELSE 0)
                overflow ==
                    incoming > U64_MAX \/ spends > U64_MAX \/ tx.balancing_value = I64_MIN
            IN IF resolves /\ ~overflow /\ incoming >= spends
               THEN last.res = TxError("Ok", incoming - spends, 0)
               ELSE (~resolves \/ ~overflow) => last.res = TxError("Overspend", 0, 0)
    IN last.op = "checked_transaction_fee" => Settled(CurrentStore, last.arg.tx)

(***************************************************************************)
(* Properties of the chain verifier                                        *)
(***************************************************************************)
\* C19: verify at a level that has NO_VERIFICATION returns Ok for every
\* block, with no pre-verification, no reading of the store and no
\* acceptance run, and leaves the store as it was.
C19_NoVerificationGate ==
    [][(last'.op = "verify" /\ "NO_VERIFICATION" \in last'.arg.level) =>
           /\ last'.res.res.err = "Ok"
           /\ last'.res.ran = <<>>
           /\ UNCHANGED <<db, best_block, fork_chain, orphaned_blocks_pool>>]_vars

\* A block without transactions, refused with Empty at the level FULL, has
\* been verified at NO_VERIFICATION.
C19_EmptyBlockPassed ==
    /\ last.op = "verify"
    /\ "NO_VERIFICATION" \in last.arg.level
    /\ last.arg.block.transactions = <<>>
    /\ last.res.res.err = "Ok"
    /\ verify_block(CurrentStore, {"FULL"}, last.arg.block).res.err = "Empty"

(***************************************************************************)
(* Properties of the orphan pool of the blocks writer                      *)
(***************************************************************************)
\* C20: the pool never holds more than 1024 orphans; an append_block call
\* that pools a block and leaves at most 1024 pooled returns Ok; the call
\* that delivers an orphan to a pool of 1024 returns TooManyOrphanBlocks
\* and leaves the best block of the store unchanged.
C20_OrphanPoolCapped ==
    [][LET pooled == /\ last'.op = "append_block"
                     /\ last'.arg \in orphaned_blocks_pool'
                     /\ last'.arg \notin orphaned_blocks_pool
       IN /\ Cardinality(orphaned_blocks_pool') <= MAX_ORPHANED_BLOCKS
          /\ (pooled /\ Cardinality(orphaned_blocks_pool') <= MAX_ORPHANED_BLOCKS) =>
                 last'.res = OK
          /\ (last'.op = "append_block"
                /\ Cardinality(orphaned_blocks_pool) = MAX_ORPHANED_BLOCKS
                /\ ~contains_block(CurrentStore, last'.arg)
                /\ ~contains_block(CurrentStore, Header(last'.arg).previous_header_hash)
                /\ last'.arg \notin orphaned_blocks_pool) =>
                 /\ last'.res = "TooManyOrphanBlocks"
                 /\ best_block' = best_block]_vars

\* C21: an append_block call with a block whose parent is not stored leaves
\* the best block unchanged and pools the block; a call with a block whose
\* parent is stored, and that returns Ok, stores the block and every pooled
\* descendant of it and leaves none of them pooled; when the block extended
\* the canonical chain and the descendants form one chain, the best block
\* afterwards is the last of them.
C21_OrphansFlushed ==
    [][last'.op = "append_block" =>
           LET b == last'.arg
               Flushed(desc) ==
                   /\ \A d \in desc \cup {b} :
                          /\ contains_block(PostStore, d)
                          /\ contains_block(PostStore, Header(d).previous_header_hash)
                          /\ d \notin orphaned_blocks_pool'
                   /\ \A d \in desc :
                          (last'.origin = "CanonChain" /\ Cardinality(desc) = DepthBelow(d, b))
                              => best_block'.hash = d
           IN /\ (~contains_block(CurrentStore, b)
                    /\ ~contains_block(CurrentStore, Header(b).previous_header_hash)) =>
                      /\ best_block' = best_block
                      /\ b \in orphaned_blocks_pool'
              /\ (~contains_block(CurrentStore, b)
                    /\ contains_block(CurrentStore, Header(b).previous_header_hash)
                    /\ last'.res = OK) =>
                      Flushed(OrphanDescendants(orphaned_blocks_pool, {b}))]_vars

\* B was appended after its child C had been pooled, and C is the best block.
C21_ParentArrived ==
    /\ last.op = "append_block"
    /\ last.arg = B
    /\ last.res = OK
    /\ last.origin = "CanonChain"
    /\ best_block = BestBlock(C, 2)
    /\ orphaned_blocks_pool = {}

(***************************************************************************)
(* Properties of the local node                                            *)
(***************************************************************************)
\* C22: accept_transaction returns only what the verifier posted when the
\* client took the transaction (Ok with the hash of the transaction, or the
\* error), and the client's error when it refused, with no verification
\* started; the caller never stays parked once the verifier has posted and
\* notified, and never finds the sink empty when woken.
C22_AcceptTransactionSynchronous ==
    /\ (caller.pc = "returned" /\ ~caller.refused) =>
           /\ verifier.posted # <<>>
           /\ caller.returned = verifier.posted
           /\ caller.returned[1].ok => caller.returned[1].hash = caller.transaction
    /\ (caller.pc = "returned" /\ caller.refused) =>
           /\ verifier.pc = "idle"
           /\ ~caller.returned[1].ok
    /\ ~(caller.pc = "parked" /\ verifier.pc = "done")
    /\ caller.pc # "panicked"
    /\ caller.pc \in {"wait", "locked", "parked", "woken"} => caller.returned = <<>>

\* The caller was parked before the verifier posted, and has returned the
\* posted result.
C22_WokenWithResult ==
    /\ caller.pc = "returned"
    /\ ~caller.refused
    /\ caller.waited
    /\ verifier.pc = "done"
    /\ ~sink_data.waiter
    /\ sink_data.result = <<>>
    /\ caller.returned = verifier.posted
    /\ ~caller.returned[1].ok

Included(seen) == SelectSeq(seen, LAMBDA c : c.outcome \in {"Append", "FinishAndAppend"})
PassedOver(seen) == SelectSeq(seen, LAMBDA c : c.outcome \notin {"Append", "FinishAndAppend"})

\* C24: a yielded entry spends no output of an entry the iterator saw
\* before it and did not yield, and every entry it passed over is in the
\* ignored set.
C24_IgnoredAncestors ==
    LET seen == last.res.considered
        yielded == {Included(seen)[i].entry.hash : i \in 1..Len(Included(seen))}
    IN last.op \in {"next", "create_new_block"} =>
           /\ \A j \in 1..Len(seen) :
                  seen[j].outcome \in {"Append", "FinishAndAppend"} =>
                      \A i \in 1..(j - 1) :
                          seen[i].entry.hash \in seen[j].entry.inputs =>
                              seen[i].entry.hash \in yielded
           /\ \A j \in 1..Len(PassedOver(seen)) :
                  PassedOver(seen)[j].entry.hash \in last.res.it.ignored

\* C25: the reserved header size and the sizes of the yielded entries stay
\* within max_block_size, and their sigops within max_block_sigops.
C25_LimitsRespected ==
    LET yielded == Included(last.res.considered)
    IN last.op \in {"next", "create_new_block"} =>
           /\ BLOCK_HEADER_SIZE + 4 + Sum([i \in 1..Len(yielded) |-> yielded[i].entry.size])
                  <= last.arg.assembler.max_block_size
           /\ Sum([i \in 1..Len(yielded) |-> yielded[i].entry.sigops])
                  <= last.arg.assembler.max_block_sigops

\* C26: an entry that is not final in the block leaves the finish counters
\* of both policies as they were.
C26_NonFinalNotCounted ==
    LET seen == last.res.considered
    IN last.op \in {"next", "create_new_block"} =>
           \A j \in 1..Len(seen) :
               seen[j].outcome = "not final" => seen[j].after = seen[j].before

C29_RoundTrip ==
    last.op = "deserialize" =>
        /\ last.res.read[1].err = ""
        /\ last.res.read[1].value = <<last.arg.x>>
        /\ last.res.read[1].rest = <<>>

\* C30: a version payload is deserialized to the variant of the version the
\* peers agreed on: V0 below 106, V106 below 70001, V70001 from there on.
C30_NegotiatedVersionSelects ==
    (last.op = "deserialize" /\ last.arg.x.kind = "Version") =>
        last.res.read[1] = Version_deserialize_negotiated(last.res.bytes, last.arg.version)

(***************************************************************************)
(* Properties of the tree states                                           *)
(***************************************************************************)
\* C31: every stored block has its Sprout root recorded, the tree states
\* under its Sprout root and under the final Sapling root of its header
\* are there and are the trees of its chain, and every tree state is
\* stored under its own root.
C31_TreeStateUnderOwnRoot ==
    LET s == CurrentStore
    IN /\ \A h \in BlockIds :
              contains_block(s, h) =>
                  /\ Has(s.kv, "sroots", h)
                  /\ Has(s.kv, "trees", <<"Sprout", Val(s.kv, "sroots", h)>>)
                  /\ Has(s.kv, "trees", <<"Sapling", block_header(s, h).final_sapling_root>>)
                  /\ sprout_tree_at_block(s, h) = ChainTree(h, FALSE)
                  /\ sapling_tree_at_block(s, h) = ChainTree(h, TRUE)
       /\ \A key \in DOMAIN s.kv.base.trees : RootOf(s.kv.base.trees[key]) = key[2]


(* Properties of the signature hash *)

\* C32: the signature hash of an input computed with a cache that an earlier
\* signature hash of the same transaction filled is the hash computed with a
\* fresh cache.
C32_CacheIsTransparent ==
    last.op = "check" =>
        last.res.hash = signature_hash(last.arg.signer, SighashCacheDefault, last.arg.second,
                                       5, <<118>>, last.arg.second_type, 7).hash

\* The cache was filled by the signature of another input, and the checked
\* signature takes all its portions of an all-input, all-output hash from it.
C32_CachedPortionsUsed ==
    /\ last.op = "check"
    /\ last.arg.first # <<>> /\ last.arg.second # <<>> /\ last.arg.first # last.arg.second
    /\ last.arg.second_type = 1
    /\ last.arg.first_type = 1
    /\ last.res.cache.hash_prevouts # <<>>
    /\ last.res.cache.hash_outputs # <<>>
    /\ last.res.cache.hash_sapling_spends # <<>>
    /\ last.arg.signer.outputs = <<50, 60>>

(* Properties of the parallel transaction checks *)

\* C33: whatever the segments and the order of the folds and reductions,
\* check_transactions returns Ok when every transaction passes, and
\* otherwise the error of the failing transaction of the lowest index, with
\* that index and the first check of that transaction that fails.
C33_LowestFailingTransaction ==
    LET block == last.arg.block
        Check(i) == fold_op(CurrentStore, last.arg, TransactionsOk, i)
        failing == {i \in DOMAIN block : Check(i).err # "Ok"}
    IN ParIterDone =>
           IF failing = {} THEN last.res.segments[1].result = TransactionsOk
           ELSE last.res.segments[1].result = Check(CHOOSE i \in failing : \A k \in failing : i <= k)

\* Two transactions fail with different errors, the later one was checked
\* first, in another segment, and the error returned is the earlier one's.
C33_LaterFailureCheckedFirst ==
    LET block == last.arg.block
        Check(i) == fold_op(CurrentStore, last.arg, TransactionsOk, i)
    IN /\ ParIterDone
       /\ \E i, j \in DOMAIN block :
              /\ i < j
              /\ Check(i).err # "Ok" /\ Check(j).err # "Ok" /\ Check(i).err # Check(j).err
              /\ \A k \in DOMAIN block : k < i => Check(k).err = "Ok"
              /\ last.res.first = j
              /\ last.res.segments[1].result.index = i - 1

(* Properties of the threads on one store *)

\* C34: no two of insert, canonize and decanonize are between their first
\* read and their last write at the same time, and a reader never holds its
\* guard while a canonize or decanonize is under way, its batch written or
\* not and the best block not yet assigned.
C34_MutuallyExclusive ==
    /\ \A t, u \in Threads : InSection(t) /\ InSection(u) => t = u
    /\ last.res.readers = 1 =>
           \A t \in Threads : last.res.threads[t].pc \notin {"locked", "written"}

\* C35: canonize assigns the best block last: while its batch is written
\* and the best block is not yet assigned the store already holds the new
\* best block at its number with the meta of its transactions, and a reader
\* that reads a best block b under its guard reads b at the number of b and
\* the meta of every transaction of b.
C35_BestUpdatedLast ==
    LET Canonized(s, best) ==
            /\ has_block_hash(s, best.number)
            /\ block_hash(s, best.number) = best.hash
            /\ \A h \in Range(block_transaction_hashes(s, best.hash)) : has_transaction_meta(s, h)
    IN /\ \A t \in Threads :
              (last.res.threads[t].pc = "written" /\ last.res.threads[t].op = "canonize") =>
                  /\ best_block # last.res.threads[t].new_best
                  /\ Canonized(CurrentStore, last.res.threads[t].new_best)
       /\ (last.res.seen # <<>> /\ last.res.seen[1].best.hash # ZERO) =>
              /\ last.res.seen[1].hash = <<last.res.seen[1].best.hash>>
              /\ last.res.seen[1].meta

\* A reader has read the best block A that a canonize of this run assigned.
C35_ReaderSeesCanonized ==
    /\ last.res.seen # <<>>
    /\ last.res.seen[1].best.hash = A
    /\ last.res.seen[1].hash = <<A>>
    /\ last.res.seen[1].meta

(* Properties of the value sums *)

\* C36: with the sums taken in the integers, the overspend check and
\* checked_transaction_fee return InputValueOverflow when the incoming
\* values add up beyond U64_MAX, otherwise OutputValueOverflow when the
\* spent values do, otherwise Overspend when incoming < spends, and
\* otherwise no error.
C36_NeverWraps ==
    LET tx == last.arg.tx
        Positive(v) == IF v > 0 THEN v ELSE 0
        Expected(incoming, spends) ==
            IF incoming > U64_MAX THEN "InputValueOverflow"
            ELSE IF spends > U64_MAX THEN "OutputValueOverflow"
            ELSE IF incoming < spends THEN "Overspend"
            ELSE "Ok"
        Incoming ==
            Sum([j \in DOMAIN tx.inputs |-> TxOutputValue(tx.inputs[j].hash, tx.inputs[j].index)])
            + Sum([i \in DOMAIN tx.descriptions |-> tx.descriptions[i].value_pub_new])
            + Positive(tx.balancing_value)
        Spends ==
            Sum(tx.outputs)
            + Sum([i \in DOMAIN tx.descriptions |-> tx.descriptions[i].value_pub_old])
            + Positive(0 - tx.balancing_value)
    IN last.op \in {"TransactionOverspent", "checked_transaction_fee"} =>
           last.res.err = Expected(Incoming, Spends)

(* Properties of the size policy *)

\* C37: decide appends exactly when the size fits under max_size; it
\* finishes exactly on the calls made in finishing mode from the
\* finish_limit-th such call on; and the policy of test_size_policy answers
\* the sizes of the test with the steps of the test.
C37_SizePolicyDecides ==
    LET r == last.res
        TestSteps == <<"Append", "Append", "Ignore", "Append", "Ignore", "Ignore", "Append",
                       "Append", "Ignore", "FinishAndAppend", "FinishAndIgnore">>
    IN last.op = "decide" =>
           /\ r.step \in {"Append", "FinishAndAppend"}
                  <=> r.before.current_size + r.size <= r.before.max_size
           /\ r.step \in {"FinishAndAppend", "FinishAndIgnore"}
                  <=> /\ r.before.current_size + r.before.size_buffer > r.before.max_size
                      /\ r.finishing_calls >= r.before.finish_limit
           /\ r.test => r.step = TestSteps[r.calls]

\* The policy of the test has answered the tenth size, the third it is asked
\* in finishing mode, with FinishAndAppend.
C37_TestFinishes ==
    /\ last.op = "decide"
    /\ last.res.test
    /\ last.res.calls = 10
    /\ last.res.finishing_calls = 3
    /\ last.res.step = "FinishAndAppend"

(* Properties of a failed canonize or decanonize *)

\* C38: a canonize or decanonize call that returns CannotCanonize,
\* CannotDecanonize or a database error leaves the database, the best block
\* and, for a call on a fork, the fork's overlay and best block as they were.
C38_FailedCallChangesNothing ==
    [][(/\ last'.op \in {"canonize", "decanonize", "fork_canonize"}
        /\ last'.res \in {CannotCanonize, CannotDecanonize, DatabaseError})
       => /\ db' = db
          /\ best_block' = best_block
          /\ fork_chain'.live = fork_chain.live
          /\ fork_chain'.overlay = fork_chain.overlay
          /\ fork_chain'.best = fork_chain.best]_vars

\* canonize of a stored child of the best block has failed in its loop over
\* the transactions or at its write.
C38_FailedPastTheGuards ==
    /\ last.op = "canonize"
    /\ last.res \in {CannotCanonize, DatabaseError}
    /\ contains_block(CurrentStore, last.arg)
    /\ block_header(CurrentStore, last.arg).previous_header_hash = best_block.hash

(* Properties of the assertion on the best block *)

\* C39: in every state of the store the block at the height of the best
\* block is the best block, so that neither block_origin nor verify_block
\* aborts on the assertion best.hash == block_hash(best.number).
C39_BestBlockAtItsHeight == BestIsCanon(CurrentStore)

(* Properties of the blocks released from the orphan pool *)

\* C40: every block an append_block call takes out of the orphan pool is
\* stored when the call returns, or is the block whose error the call
\* returns, or descends from that block.
C40_NoReleasedBlockLost ==
    [][last'.op = "append_block" =>
           \A d \in orphaned_blocks_pool \ orphaned_blocks_pool' :
               \/ contains_block(PostStore, d)
               \/ /\ last'.res # OK
                  /\ d \in {last'.failed}
                             \cup OrphanDescendants(orphaned_blocks_pool, {last'.failed})]_vars
=============================================================================
